---- MODULE Spec2Model ----
(***************************************************************************)
(* Model of the configuration loader and validator of the service          *)
(* (package config: Load, decodeTypeAndName, the load and validate       *)
(* functions) and of the configuration entities of package configmodels.   *)
(*                                                                         *)
(* A Go string is modelled as a sequence of symbols.  A symbol is either   *)
(* one character ("/", " ", "a", "b") or a word without separator and      *)
(* without white space ("traces", "metrics") that the code only ever       *)
(* compares as a whole.                                                    *)
(***************************************************************************)
EXTENDS Integers, Sequences, FiniteSets, TLC

(***************************************************************************)
(* Bounds of the model.                                                    *)
(***************************************************************************)
\* Longest key (in symbols) of the single-key inputs.
MaxKeyLen == 4
\* Longest reference list of a pipeline of the reference inputs.
MaxRefs == 2
\* Number of goroutines that call the methods of a receiver.
NumCallers == 2
\* Number of calls made on the VM metrics receiver, all callers together.
MaxVMCalls == 3
\* Number of calls made on the OpenCensus receiver, all callers together.
MaxOCCalls == 2
\* Number of connections made to the listener of the OpenCensus receiver.
MaxConns == 1

(***************************************************************************)
(* Error codes of Load (configErrorCode); 0 stands for a nil error.        *)
(***************************************************************************)
errNone == 0
errInvalidTypeAndNameKey == 1
errUnknownReceiverType == 2
errUnknownExporterType == 3
errUnknownProcessorType == 4
errInvalidPipelineType == 5
errDuplicateReceiverName == 6
errDuplicateExporterName == 7
errDuplicateProcessorName == 8
errDuplicatePipelineName == 9
errMissingPipelines == 10
errPipelineMustHaveReceiver == 11
errPipelineMustHaveExporter == 12
errPipelineMustHaveProcessors == 13
errPipelineReceiverNotExists == 14
errPipelineProcessorNotExists == 15
errPipelineExporterNotExists == 16
errMetricPipelineCannotHaveProcessors == 17
errUnmarshalError == 18
errMissingReceivers == 19
errMissingExporters == 20

(***************************************************************************)
(* configmodels: data types.                                               *)
(***************************************************************************)
TracesDataType == 1
MetricsDataType == 2
TracesDataTypeStr == <<"traces">>
MetricsDataTypeStr == <<"metrics">>

(***************************************************************************)
(* Strings.                                                                *)
(***************************************************************************)
typeAndNameSeparator == "/"

\* The white space strings.TrimSpace removes.
WhiteSpace == {" "}

\* Index of the first occurrence of c in s at or after i, 0 when there is none.
RECURSIVE IndexFrom(_, _, _)
IndexFrom(s, c, i) ==
    IF i > Len(s) THEN 0
    ELSE IF s[i] = c THEN i
    ELSE IndexFrom(s, c, i + 1)

\* strings.SplitN(s, sep, 2): one item without separator, else the text
\* before the first separator and everything after it.
SplitN2(s, sep) ==
    LET i == IndexFrom(s, sep, 1)
    IN  IF i = 0 THEN <<s>>
        ELSE <<SubSeq(s, 1, i - 1), SubSeq(s, i + 1, Len(s))>>

RECURSIVE TrimLeft(_)
TrimLeft(s) ==
    IF s # <<>> /\ Head(s) \in WhiteSpace THEN TrimLeft(Tail(s)) ELSE s

RECURSIVE TrimRight(_)
TrimRight(s) ==
    IF s # <<>> /\ s[Len(s)] \in WhiteSpace
    THEN TrimRight(SubSeq(s, 1, Len(s) - 1))
    ELSE s

\* strings.TrimSpace
TrimSpace(s) == TrimRight(TrimLeft(s))

\* The two errors of decodeTypeAndName; "" is the nil error.
errNoTypePart == "type/name key must have the type part"
errNoNamePart == "name part must be specified after / in type/name key"

\* decodeTypeAndName with the name part left untrimmed.
decodeTypeAndName_UntrimmedName(key) ==
    LET items == SplitN2(key, typeAndNameSeparator)
        typeStr == TrimSpace(items[1])
        nameSuffix == IF Len(items) > 1 THEN items[2] ELSE <<>>
    IN  IF typeStr = <<>>
        THEN [typeStr |-> <<>>, fullName |-> <<>>, err |-> errNoTypePart]
        ELSE IF Len(items) > 1 /\ nameSuffix = <<>>
        THEN [typeStr |-> typeStr, fullName |-> <<>>, err |-> errNoNamePart]
        ELSE [typeStr |-> typeStr,
              fullName |-> IF nameSuffix = <<>> THEN typeStr
                           ELSE typeStr \o <<typeAndNameSeparator>> \o nameSuffix,
              err |-> ""]

\* decodeTypeAndName(key): the named results (typeStr, fullName, err) at return.
decodeTypeAndName(key) ==
    LET items == SplitN2(key, typeAndNameSeparator)
        typeStr == TrimSpace(items[1])
        nameSuffix == IF Len(items) > 1 THEN TrimSpace(items[2]) ELSE <<>>
    IN  IF typeStr = <<>>
        THEN [typeStr |-> <<>>, fullName |-> <<>>, err |-> errNoTypePart]
        ELSE IF Len(items) > 1 /\ nameSuffix = <<>>
        THEN [typeStr |-> typeStr, fullName |-> <<>>, err |-> errNoNamePart]
        ELSE [typeStr |-> typeStr,
              fullName |-> IF nameSuffix = <<>> THEN typeStr
                           ELSE typeStr \o <<typeAndNameSeparator>> \o nameSuffix,
              err |-> ""]


(***************************************************************************)
(* Maps (Go maps keyed by string) are functions; a nil or empty map is the *)
(* function of empty domain.                                               *)
(***************************************************************************)
EmptyMap == <<>>

MapPut(m, k, v) == [x \in (DOMAIN m) \cup {k} |-> IF x = k THEN v ELSE m[x]]

MapDelete(m, ks) == [x \in (DOMAIN m) \ ks |-> m[x]]

(***************************************************************************)
(* Errors.  A configError carries its code and the values formatted into   *)
(* its message.                                                            *)
(***************************************************************************)
NoError == [code |-> errNone, msg |-> <<>>]

configError(code, msg) == [code |-> code, msg |-> msg]

(***************************************************************************)
(* configmodels: entities.  ReceiverSettings, ExporterSettings and         *)
(* ProcessorSettings share the fields the loader and validator use.        *)
(***************************************************************************)
\* IsEnabled: the entity is enabled unless Disabled is set.
IsEnabled(e) == ~e.Disabled

\* factory.CreateDefaultConfig() followed by SetType only: the name is left
\* as the factory gave it.
NewEntity_NoSetName(typeStr, fullName) ==
    [TypeVal |-> typeStr, NameVal |-> typeStr, Disabled |-> FALSE]

\* factory.CreateDefaultConfig() followed by SetType and SetName.
NewEntity(typeStr, fullName) ==
    [TypeVal |-> typeStr, NameVal |-> fullName, Disabled |-> FALSE]

\* factory.CreateDefaultConfig() of the factory of typeStr: the settings
\* carry the type as type and as name, and the entity is enabled.
CreateDefaultConfig(typeStr) ==
    [TypeVal |-> typeStr, NameVal |-> typeStr, Disabled |-> FALSE]

\* The user gives the setting "disabled" of a component as "true" or
\* "false", as a value that does not decode to a boolean ("invalid"), or
\* not at all ("unset").
\* UnmarshalKey for a component: the error (TRUE when decoding fails).
UnmarshalFails(settings) == settings.disabled = "invalid"

\* UnmarshalKey that decodes nothing: cfg keeps the defaults.
UnmarshalKey_Defaults(settings, cfg) == cfg

\* UnmarshalKey for a component: the user's settings applied on top of cfg.
UnmarshalKey(settings, cfg) ==
    IF settings.disabled = "unset" THEN cfg
    ELSE [cfg EXCEPT !.Disabled = (settings.disabled = "true")]

\* The factories given to Load, by type.
receiverFactories == {<<"a">>}
exporterFactories == {<<"a">>}
processorFactories == {<<"a">>}

(***************************************************************************)
(* Validation of one pipeline.                                             *)
(***************************************************************************)
\* The first reference of refs (from index i) that is no key of m, 0 if none.
RECURSIVE FirstMissing(_, _, _)
FirstMissing(refs, m, i) ==
    IF i > Len(refs) THEN 0
    ELSE IF refs[i] \notin DOMAIN m THEN i
    ELSE FirstMissing(refs, m, i + 1)

\* The removal of disabled references without the copy into rs: the list
\* is cut to the number of enabled references.
RECURSIVE RemoveDisabled_Truncating(_, _, _, _, _, _, _)
RemoveDisabled_Truncating(arr, w, i, m, kind, pname, log) ==
    IF i > Len(arr) THEN [refs |-> SubSeq(arr, 1, w), log |-> log]
    ELSE IF IsEnabled(m[arr[i]])
    THEN RemoveDisabled_Truncating(arr, w + 1, i + 1, m, kind, pname, log)
    ELSE RemoveDisabled_Truncating(arr, w, i + 1, m, kind, pname,
                        Append(log, [level |-> "info", kind |-> kind,
                                     pipeline |-> pname, ref |-> arr[i]]))

\* "Remove disabled ...": rs := refs[:0], then every enabled reference is
\* appended to rs, which shares the array of refs; arr is that array, w the
\* length of rs, i the index of the range loop.  Every disabled reference
\* is logged.
RECURSIVE RemoveDisabled(_, _, _, _, _, _, _)
RemoveDisabled(arr, w, i, m, kind, pname, log) ==
    IF i > Len(arr) THEN [refs |-> SubSeq(arr, 1, w), log |-> log]
    ELSE IF IsEnabled(m[arr[i]])
    THEN RemoveDisabled([arr EXCEPT ![w + 1] = arr[i]], w + 1, i + 1,
                        m, kind, pname, log)
    ELSE RemoveDisabled(arr, w, i + 1, m, kind, pname,
                        Append(log, [level |-> "info", kind |-> kind,
                                     pipeline |-> pname, ref |-> arr[i]]))

\* validatePipelineReceivers with the test of IsEnabled inverted.
validatePipelineReceivers_KeepsDisabled(cfg, pipeline, log) ==
    LET miss == FirstMissing(pipeline.Receivers, cfg.Receivers, 1)
        inverted == [n \in DOMAIN cfg.Receivers |->
                        [cfg.Receivers[n] EXCEPT !.Disabled = ~@]]
        rd == RemoveDisabled(pipeline.Receivers, 0, 1, inverted,
                             "receiver", pipeline.Name, log)
    IN  IF Len(pipeline.Receivers) = 0
        THEN [err |-> configError(errPipelineMustHaveReceiver, <<pipeline.Name>>),
              pipeline |-> pipeline, log |-> log]
        ELSE IF miss # 0
        THEN [err |-> configError(errPipelineReceiverNotExists,
                                  <<pipeline.Name, pipeline.Receivers[miss]>>),
              pipeline |-> pipeline, log |-> log]
        ELSE [err |-> NoError,
              pipeline |-> [pipeline EXCEPT !.Receivers = rd.refs],
              log |-> rd.log]

\* validatePipelineReceivers: the error, the pipeline and the log at return.
validatePipelineReceivers(cfg, pipeline, log) ==
    LET miss == FirstMissing(pipeline.Receivers, cfg.Receivers, 1)
        rd == RemoveDisabled(pipeline.Receivers, 0, 1, cfg.Receivers,
                             "receiver", pipeline.Name, log)
    IN  IF Len(pipeline.Receivers) = 0
        THEN [err |-> configError(errPipelineMustHaveReceiver, <<pipeline.Name>>),
              pipeline |-> pipeline, log |-> log]
        ELSE IF miss # 0
        THEN [err |-> configError(errPipelineReceiverNotExists,
                                  <<pipeline.Name, pipeline.Receivers[miss]>>),
              pipeline |-> pipeline, log |-> log]
        ELSE [err |-> NoError,
              pipeline |-> [pipeline EXCEPT !.Receivers = rd.refs],
              log |-> rd.log]

\* validatePipelineExporters
validatePipelineExporters(cfg, pipeline, log) ==
    LET miss == FirstMissing(pipeline.Exporters, cfg.Exporters, 1)
        rd == RemoveDisabled(pipeline.Exporters, 0, 1, cfg.Exporters,
                             "exporter", pipeline.Name, log)
    IN  IF Len(pipeline.Exporters) = 0
        THEN [err |-> configError(errPipelineMustHaveExporter, <<pipeline.Name>>),
              pipeline |-> pipeline, log |-> log]
        ELSE IF miss # 0
        THEN [err |-> configError(errPipelineExporterNotExists,
                                  <<pipeline.Name, pipeline.Exporters[miss]>>),
              pipeline |-> pipeline, log |-> log]
        ELSE [err |-> NoError,
              pipeline |-> [pipeline EXCEPT !.Exporters = rd.refs],
              log |-> rd.log]

\* validatePipelineProcessors with the rule of the data type checked on the
\* list as pruned instead of the list as declared.
validatePipelineProcessors_RuleAfterPruning(cfg, pipeline, log) ==
    LET miss == FirstMissing(pipeline.Processors, cfg.Processors, 1)
        rd == RemoveDisabled(pipeline.Processors, 0, 1, cfg.Processors,
                             "processor", pipeline.Name, log)
    IN  IF miss # 0
        THEN [err |-> configError(errPipelineProcessorNotExists,
                                  <<pipeline.Name, pipeline.Processors[miss]>>),
              pipeline |-> pipeline, log |-> log]
        ELSE IF pipeline.InputType = TracesDataType /\ Len(rd.refs) = 0
        THEN [err |-> configError(errPipelineMustHaveProcessors, <<pipeline.Name>>),
              pipeline |-> pipeline, log |-> log]
        ELSE IF pipeline.InputType = MetricsDataType /\ Len(rd.refs) > 0
        THEN [err |-> configError(errMetricPipelineCannotHaveProcessors,
                                  <<pipeline.Name>>),
              pipeline |-> pipeline, log |-> log]
        ELSE [err |-> NoError,
              pipeline |-> [pipeline EXCEPT !.Processors = rd.refs],
              log |-> rd.log]

\* validatePipelineProcessors with a metrics pipeline allowed one processor.
validatePipelineProcessors_MetricsOffByOne(cfg, pipeline, log) ==
    LET miss == FirstMissing(pipeline.Processors, cfg.Processors, 1)
        rd == RemoveDisabled(pipeline.Processors, 0, 1, cfg.Processors,
                             "processor", pipeline.Name, log)
    IN  IF pipeline.InputType = TracesDataType /\ Len(pipeline.Processors) = 0
        THEN [err |-> configError(errPipelineMustHaveProcessors, <<pipeline.Name>>),
              pipeline |-> pipeline, log |-> log]
        ELSE IF pipeline.InputType = MetricsDataType /\ Len(pipeline.Processors) > 1
        THEN [err |-> configError(errMetricPipelineCannotHaveProcessors,
                                  <<pipeline.Name>>),
              pipeline |-> pipeline, log |-> log]
        ELSE IF miss # 0
        THEN [err |-> configError(errPipelineProcessorNotExists,
                                  <<pipeline.Name, pipeline.Processors[miss]>>),
              pipeline |-> pipeline, log |-> log]
        ELSE [err |-> NoError,
              pipeline |-> [pipeline EXCEPT !.Processors = rd.refs],
              log |-> rd.log]

\* validatePipelineProcessors
validatePipelineProcessors(cfg, pipeline, log) ==
    LET miss == FirstMissing(pipeline.Processors, cfg.Processors, 1)
        rd == RemoveDisabled(pipeline.Processors, 0, 1, cfg.Processors,
                             "processor", pipeline.Name, log)
    IN  IF pipeline.InputType = TracesDataType /\ Len(pipeline.Processors) = 0
        THEN [err |-> configError(errPipelineMustHaveProcessors, <<pipeline.Name>>),
              pipeline |-> pipeline, log |-> log]
        ELSE IF pipeline.InputType = MetricsDataType /\ Len(pipeline.Processors) > 0
        THEN [err |-> configError(errMetricPipelineCannotHaveProcessors,
                                  <<pipeline.Name>>),
              pipeline |-> pipeline, log |-> log]
        ELSE IF miss # 0
        THEN [err |-> configError(errPipelineProcessorNotExists,
                                  <<pipeline.Name, pipeline.Processors[miss]>>),
              pipeline |-> pipeline, log |-> log]
        ELSE [err |-> NoError,
              pipeline |-> [pipeline EXCEPT !.Processors = rd.refs],
              log |-> rd.log]

\* validatePipeline run after the disabled entries were deleted from the
\* three maps.
validatePipeline_DeletedFirst(cfg, pipeline, log) ==
    LET Enabled(m) == [n \in {x \in DOMAIN m : IsEnabled(m[x])} |-> m[n]]
        c == [cfg EXCEPT !.Receivers = Enabled(cfg.Receivers),
                         !.Exporters = Enabled(cfg.Exporters),
                         !.Processors = Enabled(cfg.Processors)]
        r == validatePipelineReceivers(c, pipeline, log)
        e == validatePipelineExporters(c, r.pipeline, r.log)
        p == validatePipelineProcessors(c, e.pipeline, e.log)
    IN  IF r.err # NoError THEN r
        ELSE IF e.err # NoError THEN e
        ELSE p

\* validatePipeline: receivers, then exporters, then processors; the first
\* error ends it.  The pipeline is the one the checks that ran have rewritten.
validatePipeline(cfg, pipeline, log) ==
    LET r == validatePipelineReceivers(cfg, pipeline, log)
        e == validatePipelineExporters(cfg, r.pipeline, r.log)
        p == validatePipelineProcessors(cfg, e.pipeline, e.log)
    IN  IF r.err # NoError THEN r
        ELSE IF e.err # NoError THEN e
        ELSE p

\* No entity is taken as disabled: the maps keep their disabled entries.
DisabledNames_None(m) == {}

\* The names of m whose entity is disabled.
DisabledNames(m) == {n \in DOMAIN m : ~IsEnabled(m[n])}


(***************************************************************************)
(* State.                                                                  *)
(***************************************************************************)
VARIABLES
    viper,    \* the configuration source: the four sections, by key
    pc,       \* the position of Load
    visited,  \* the keys (or pipeline names) the current range loop has visited
    config,   \* Load's config: Receivers, Exporters, Processors, Pipelines
    logger,   \* the entries logged so far
    result    \* what Load returned: config (<<>> is nil, else <<config>>), err

\* The VM metrics receiver (vmr) and its collector.
VARIABLES
    vmrMu,         \* vmr.mu: the caller that holds it, 0 when it is free
    vmrStartOnce,  \* vmr.startOnce has run its function
    vmrStopOnce,   \* vmr.stopOnce has run its function
    vmcCalls,      \* the calls made on vmr.vmc, in order
    vmrCall,       \* by caller: the call in progress (pc, method, err, ran)
    vmrReturns     \* the calls that returned, in order

vmrVars == <<vmrMu, vmrStartOnce, vmrStopOnce, vmcCalls, vmrCall, vmrReturns>>

\* The OpenCensus receiver (ocr), its servers and its goroutines.
VARIABLES
    ocrConsumers,  \* the services whose consumer given to New is not nil
    ocrMu,         \* ocr.mu: who holds it, 0 when it is free
    ocrOnce,       \* the four sync.Once of ocr: "new", "running" or "done"
    ocrReceivers,  \* ocr.traceReceiver, ocr.metricsReceiver
    ocrServerGRPC, \* ocr.serverGRPC and the calls made on it
    ocrServerHTTP, \* ocr.serverHTTP and the calls made on it
    ocrLn,         \* ocr.ln
    ocrMux,        \* the cmux of startServer and its two listeners
    ocrErrChan,    \* errChan of startServer: the errors it buffers
    ocrGo,         \* the goroutines of startServer: pc and error to send
    ocrCall,       \* by caller: the call in progress
    ocrCalls,      \* the number of calls made so far
    ocrReturns,    \* the calls that returned (method, err, ran, after...)
    ocrHost        \* the errors given to the Host's ReportFatalError

ocrVars ==
    <<ocrConsumers, ocrMu, ocrOnce, ocrReceivers, ocrServerGRPC, ocrServerHTTP,
      ocrLn, ocrMux, ocrErrChan, ocrGo, ocrCall, ocrCalls, ocrReturns, ocrHost>>

\* The variables of Load.
loadVars == <<viper, pc, visited, config, logger, result>>

vars == <<loadVars, vmrVars, ocrVars>>

NotReturned == [returned |-> FALSE, config |-> <<>>, err |-> NoError]

EmptyConfig ==
    [Receivers |-> EmptyMap, Exporters |-> EmptyMap,
     Processors |-> EmptyMap, Pipelines |-> EmptyMap]

(***************************************************************************)
(* Loading one key of a section.                                           *)
(***************************************************************************)
\* The loop body without the test for a duplicate name: the later key wins.
loadComponent_NoDuplicateTest(key, settings, factories, m, errUnknownType, errDuplicateName) ==
    LET d == decodeTypeAndName(key)
        cfg == UnmarshalKey(settings, NewEntity(d.typeStr, d.fullName))
    IN  IF d.err # "" \/ d.typeStr = <<>>
        THEN [err |-> configError(errInvalidTypeAndNameKey, <<key, d.err>>),
              map |-> m]
        ELSE IF d.typeStr \notin factories
        THEN [err |-> configError(errUnknownType, <<d.typeStr>>), map |-> m]
        ELSE IF UnmarshalFails(settings)
        THEN [err |-> configError(errUnmarshalError, <<d.typeStr>>), map |-> m]
        ELSE [err |-> NoError, map |-> MapPut(m, d.fullName, cfg)]

\* The loop body without the lookup of the factory: an entity is created
\* for a key of any type.
loadComponent_NoFactoryTest(key, settings, factories, m, errUnknownType, errDuplicateName) ==
    LET d == decodeTypeAndName(key)
        cfg == UnmarshalKey(settings, NewEntity(d.typeStr, d.fullName))
    IN  IF d.err # "" \/ d.typeStr = <<>>
        THEN [err |-> configError(errInvalidTypeAndNameKey, <<key, d.err>>),
              map |-> m]
        ELSE IF UnmarshalFails(settings)
        THEN [err |-> configError(errUnmarshalError, <<d.typeStr>>), map |-> m]
        ELSE IF d.fullName \in DOMAIN m
        THEN [err |-> configError(errDuplicateName, <<d.fullName>>), map |-> m]
        ELSE [err |-> NoError, map |-> MapPut(m, d.fullName, cfg)]

\* The body of the range loop of loadReceivers / loadExporters /
\* loadProcessors for one key: the error and the map after the iteration.
loadComponent(key, settings, factories, m, errUnknownType, errDuplicateName) ==
    LET d == decodeTypeAndName(key)
        cfg == UnmarshalKey(settings, NewEntity(d.typeStr, d.fullName))
    IN  IF d.err # "" \/ d.typeStr = <<>>
        THEN [err |-> configError(errInvalidTypeAndNameKey, <<key, d.err>>),
              map |-> m]
        ELSE IF d.typeStr \notin factories
        THEN [err |-> configError(errUnknownType, <<d.typeStr>>), map |-> m]
        ELSE IF UnmarshalFails(settings)
        THEN [err |-> configError(errUnmarshalError, <<d.typeStr>>), map |-> m]
        ELSE IF d.fullName \in DOMAIN m
        THEN [err |-> configError(errDuplicateName, <<d.fullName>>), map |-> m]
        ELSE [err |-> NoError, map |-> MapPut(m, d.fullName, cfg)]

\* The loop body of loadPipelines with the suffix of the key as the name.
loadPipeline_SuffixName(key, settings, m) ==
    LET d == decodeTypeAndName(key)
        items == SplitN2(key, typeAndNameSeparator)
        name == IF Len(items) > 1 THEN TrimSpace(items[2]) ELSE <<>>
        inputType == IF d.typeStr = TracesDataTypeStr THEN TracesDataType
                     ELSE MetricsDataType
        pipelineCfg == [Name |-> name, InputType |-> inputType,
                        Receivers |-> settings.receivers,
                        Processors |-> settings.processors,
                        Exporters |-> settings.exporters]
    IN  IF d.err # "" \/ d.typeStr = <<>>
        THEN [err |-> configError(errInvalidTypeAndNameKey, <<key, d.err>>),
              map |-> m]
        ELSE IF d.typeStr \notin {TracesDataTypeStr, MetricsDataTypeStr}
        THEN [err |-> configError(errInvalidPipelineType, <<d.typeStr>>),
              map |-> m]
        ELSE IF settings.malformed
        THEN [err |-> configError(errUnmarshalError, <<d.typeStr>>), map |-> m]
        ELSE IF name \in DOMAIN m
        THEN [err |-> configError(errDuplicatePipelineName, <<name>>), map |-> m]
        ELSE [err |-> NoError, map |-> MapPut(m, name, pipelineCfg)]

\* The body of the range loop of loadPipelines for one key.
loadPipeline(key, settings, m) ==
    LET d == decodeTypeAndName(key)
        name == d.fullName
        inputType == IF d.typeStr = TracesDataTypeStr THEN TracesDataType
                     ELSE MetricsDataType
        pipelineCfg == [Name |-> name, InputType |-> inputType,
                        Receivers |-> settings.receivers,
                        Processors |-> settings.processors,
                        Exporters |-> settings.exporters]
    IN  IF d.err # "" \/ d.typeStr = <<>>
        THEN [err |-> configError(errInvalidTypeAndNameKey, <<key, d.err>>),
              map |-> m]
        ELSE IF d.typeStr \notin {TracesDataTypeStr, MetricsDataTypeStr}
        THEN [err |-> configError(errInvalidPipelineType, <<d.typeStr>>),
              map |-> m]
        ELSE IF settings.malformed
        THEN [err |-> configError(errUnmarshalError, <<d.typeStr>>), map |-> m]
        ELSE IF name \in DOMAIN m
        THEN [err |-> configError(errDuplicatePipelineName, <<name>>), map |-> m]
        ELSE [err |-> NoError, map |-> MapPut(m, name, pipelineCfg)]

(***************************************************************************)
(* The steps of Load.                                                      *)
(***************************************************************************)
\* A return of the error together with the config as built so far.
ReturnError_WithConfig(e) ==
    /\ result' = [returned |-> TRUE, config |-> <<config>>, err |-> e]
    /\ pc' = "done"

\* return nil, err
ReturnError(e) ==
    /\ result' = [returned |-> TRUE, config |-> <<>>, err |-> e]
    /\ pc' = "done"

\* One iteration of a range loop that goes on after a key that failed,
\* unless the key is the last one visited.
LoadKey_SkipsFailedKey(section, field, k, r, next) ==
    IF r.err # NoError /\ visited \cup {k} = DOMAIN viper[section]
    THEN /\ ReturnError(r.err)
         /\ UNCHANGED <<visited, config>>
    ELSE /\ config' = [config EXCEPT ![field] = r.map]
         /\ IF visited \cup {k} = DOMAIN viper[section]
            THEN pc' = next /\ visited' = {}
            ELSE pc' = pc /\ visited' = visited \cup {k}
         /\ UNCHANGED result

\* One iteration of a range loop over the keys of a section: on an error
\* Load returns it, after the last key Load goes on at `next`.
LoadKey(section, field, k, r, next) ==
    IF r.err # NoError
    THEN /\ ReturnError(r.err)
         /\ UNCHANGED <<visited, config>>
    ELSE /\ config' = [config EXCEPT ![field] = r.map]
         /\ IF visited \cup {k} = DOMAIN viper[section]
            THEN pc' = next /\ visited' = {}
            ELSE pc' = pc /\ visited' = visited \cup {k}
         /\ UNCHANGED result

\* loadReceivers: no key at all.
LoadReceiversMissing ==
    /\ pc = "loadReceivers"
    /\ DOMAIN viper.receivers = {}
    /\ ReturnError(configError(errMissingReceivers, <<>>))
    /\ UNCHANGED <<viper, visited, config, logger>>
    /\ UNCHANGED <<vmrVars, ocrVars>>

\* loadReceivers: one iteration of `for key := range keyMap`.
LoadReceiversKey ==
    /\ pc = "loadReceivers"
    /\ \E k \in (DOMAIN viper.receivers) \ visited :
          LoadKey("receivers", "Receivers", k,
                  loadComponent(k, viper.receivers[k], receiverFactories,
                                config.Receivers, errUnknownReceiverType,
                                errDuplicateReceiverName),
                  "loadExporters")
    /\ UNCHANGED <<viper, logger>>
    /\ UNCHANGED <<vmrVars, ocrVars>>

\* loadExporters: no key at all.
LoadExportersMissing ==
    /\ pc = "loadExporters"
    /\ DOMAIN viper.exporters = {}
    /\ ReturnError(configError(errMissingExporters, <<>>))
    /\ UNCHANGED <<viper, visited, config, logger>>
    /\ UNCHANGED <<vmrVars, ocrVars>>

\* loadExporters: one iteration of `for key := range keyMap`.
LoadExportersKey ==
    /\ pc = "loadExporters"
    /\ \E k \in (DOMAIN viper.exporters) \ visited :
          LoadKey("exporters", "Exporters", k,
                  loadComponent(k, viper.exporters[k], exporterFactories,
                                config.Exporters, errUnknownExporterType,
                                errDuplicateExporterName),
                  "loadProcessors")
    /\ UNCHANGED <<viper, logger>>
    /\ UNCHANGED <<vmrVars, ocrVars>>

\* loadProcessors: no key, the map stays empty.
LoadProcessorsNone ==
    /\ pc = "loadProcessors"
    /\ DOMAIN viper.processors = {}
    /\ pc' = "loadPipelines"
    /\ UNCHANGED <<viper, visited, config, logger, result>>
    /\ UNCHANGED <<vmrVars, ocrVars>>

\* loadProcessors: one iteration of `for key := range keyMap`.
LoadProcessorsKey ==
    /\ pc = "loadProcessors"
    /\ \E k \in (DOMAIN viper.processors) \ visited :
          LoadKey("processors", "Processors", k,
                  loadComponent(k, viper.processors[k], processorFactories,
                                config.Processors, errUnknownProcessorType,
                                errDuplicateProcessorName),
                  "loadPipelines")
    /\ UNCHANGED <<viper, logger>>
    /\ UNCHANGED <<vmrVars, ocrVars>>

\* loadPipelines: no key, the map stays empty.
LoadPipelinesNone ==
    /\ pc = "loadPipelines"
    /\ DOMAIN viper.pipelines = {}
    /\ pc' = "validatePipelines"
    /\ UNCHANGED <<viper, visited, config, logger, result>>
    /\ UNCHANGED <<vmrVars, ocrVars>>

\* loadPipelines: one iteration of `for key := range keyMap`.
LoadPipelinesKey ==
    /\ pc = "loadPipelines"
    /\ \E k \in (DOMAIN viper.pipelines) \ visited :
          LoadKey("pipelines", "Pipelines", k,
                  loadPipeline(k, viper.pipelines[k], config.Pipelines),
                  "validatePipelines")
    /\ UNCHANGED <<viper, logger>>
    /\ UNCHANGED <<vmrVars, ocrVars>>

\* validatePipelines: there is no pipeline.
ValidatePipelinesMissing ==
    /\ pc = "validatePipelines"
    /\ DOMAIN config.Pipelines = {}
    /\ ReturnError(configError(errMissingPipelines, <<>>))
    /\ UNCHANGED <<viper, visited, config, logger>>
    /\ UNCHANGED <<vmrVars, ocrVars>>

\* validatePipelines: one iteration of `for _, pipeline := range cfg.Pipelines`.
ValidatePipelinesStep ==
    /\ pc = "validatePipelines"
    /\ \E n \in (DOMAIN config.Pipelines) \ visited :
          LET r == validatePipeline(config, config.Pipelines[n], logger)
          IN  /\ config' = [config EXCEPT !.Pipelines[n] = r.pipeline]
              /\ logger' = r.log
              /\ IF r.err # NoError
                 THEN ReturnError(r.err) /\ UNCHANGED visited
                 ELSE /\ IF visited \cup {n} = DOMAIN config.Pipelines
                         THEN pc' = "validateReceivers" /\ visited' = {}
                         ELSE pc' = pc /\ visited' = visited \cup {n}
                      /\ UNCHANGED result
    /\ UNCHANGED viper
    /\ UNCHANGED <<vmrVars, ocrVars>>

\* validateReceivers
ValidateReceivers ==
    /\ pc = "validateReceivers"
    /\ LET receivers == MapDelete(config.Receivers, DisabledNames(config.Receivers))
       IN  /\ config' = [config EXCEPT !.Receivers = receivers]
           /\ IF DOMAIN receivers = {}
              THEN ReturnError(configError(errMissingReceivers, <<>>))
              ELSE pc' = "validateExporters" /\ UNCHANGED result
    /\ UNCHANGED <<viper, visited, logger>>
    /\ UNCHANGED <<vmrVars, ocrVars>>

\* validateExporters
ValidateExporters ==
    /\ pc = "validateExporters"
    /\ LET exporters == MapDelete(config.Exporters, DisabledNames(config.Exporters))
       IN  /\ config' = [config EXCEPT !.Exporters = exporters]
           /\ IF DOMAIN exporters = {}
              THEN ReturnError(configError(errMissingExporters, <<>>))
              ELSE pc' = "validateProcessors" /\ UNCHANGED result
    /\ UNCHANGED <<viper, visited, logger>>
    /\ UNCHANGED <<vmrVars, ocrVars>>

\* validateProcessors, then `return &config, nil`.
ValidateProcessors ==
    /\ pc = "validateProcessors"
    /\ LET processors == MapDelete(config.Processors, DisabledNames(config.Processors))
           cfg == [config EXCEPT !.Processors = processors]
       IN  /\ config' = cfg
           /\ result' = [returned |-> TRUE, config |-> <<cfg>>, err |-> NoError]
    /\ pc' = "done"
    /\ UNCHANGED <<viper, visited, logger>>
    /\ UNCHANGED <<vmrVars, ocrVars>>

Next ==
    \/ LoadReceiversMissing
    \/ LoadReceiversKey
    \/ LoadExportersMissing
    \/ LoadExportersKey
    \/ LoadProcessorsNone
    \/ LoadProcessorsKey
    \/ LoadPipelinesNone
    \/ LoadPipelinesKey
    \/ ValidatePipelinesMissing
    \/ ValidatePipelinesStep
    \/ ValidateReceivers
    \/ ValidateExporters
    \/ ValidateProcessors


(***************************************************************************)
(* Receivers: the goroutines that call their methods, and the lifecycle    *)
(* signals.  A nil error is the empty string.                              *)
(***************************************************************************)
Callers == 1..NumCallers

nilError == ""
errAlreadyStarted == "already started"
errAlreadyStopped == "already stopped"

(***************************************************************************)
(* The VM metrics receiver (package vmmetricsreceiver).                    *)
(***************************************************************************)
\* No call in progress.  Of a call: pc, the method, err, whether the call
\* ran the function of its once, and whether it began after the stop body
\* had executed.
vmrIdle ==
    [pc |-> "idle", method |-> "", err |-> nilError, ran |-> FALSE,
     afterStop |-> FALSE]

\* A Receiver as built: zero mutex, zero sync.Once, a collector not started.
vmrNew ==
    /\ vmrMu = 0
    /\ vmrStartOnce = FALSE
    /\ vmrStopOnce = FALSE
    /\ vmcCalls = <<>>
    /\ vmrCall = [t \in Callers |-> vmrIdle]
    /\ vmrReturns = <<>>

\* The calls made so far, returned or in progress.
vmrCallsMade ==
    Len(vmrReturns) + Cardinality({t \in Callers : vmrCall[t].pc # "idle"})

\* Caller t may make the next call: it is idle, and so that callers which
\* differ in their number only are not told apart, it is the idle caller
\* of the lowest number.
vmrNextCaller(t) ==
    /\ vmrCall[t].pc = "idle"
    /\ \A u \in Callers : u < t => vmrCall[u].pc # "idle"
    /\ vmrCallsMade < MaxVMCalls

\* Caller t calls StartMetricsReception.
vmrStartMetricsReception(t) ==
    /\ vmrNextCaller(t)
    /\ vmrCall' = [vmrCall EXCEPT ![t] =
                      [vmrIdle EXCEPT !.pc = "Lock",
                                      !.method = "StartMetricsReception",
                                      !.afterStop = vmrStopOnce]]
    /\ UNCHANGED <<vmrMu, vmrStartOnce, vmrStopOnce, vmcCalls, vmrReturns>>
    /\ UNCHANGED <<loadVars, ocrVars>>

\* Caller t calls StopMetricsReception.
vmrStopMetricsReception(t) ==
    /\ vmrNextCaller(t)
    /\ vmrCall' = [vmrCall EXCEPT ![t] =
                      [vmrIdle EXCEPT !.pc = "Lock",
                                      !.method = "StopMetricsReception"]]
    /\ UNCHANGED <<vmrMu, vmrStartOnce, vmrStopOnce, vmcCalls, vmrReturns>>
    /\ UNCHANGED <<loadVars, ocrVars>>

\* vmr.mu.Lock(), then `var err = errAlreadyStarted` (errAlreadyStopped).
vmrLock(t) ==
    /\ vmrCall[t].pc = "Lock"
    /\ vmrMu = 0
    /\ vmrMu' = t
    /\ vmrCall' = [vmrCall EXCEPT
                      ![t].pc = "Do",
                      ![t].err = IF vmrCall[t].method = "StartMetricsReception"
                                 THEN errAlreadyStarted ELSE errAlreadyStopped]
    /\ UNCHANGED <<vmrStartOnce, vmrStopOnce, vmcCalls, vmrReturns>>
    /\ UNCHANGED <<loadVars, ocrVars>>

\* vmr.startOnce.Do without the once: the function runs in every call.
vmrStartOnceDo_EveryCall(t) ==
    /\ vmrCall[t].pc = "Do"
    /\ vmrCall[t].method = "StartMetricsReception"
    /\ vmcCalls' = Append(vmcCalls, "StartCollection")
    /\ vmrStartOnce' = TRUE
    /\ vmrCall' = [vmrCall EXCEPT ![t].pc = "Return", ![t].err = nilError,
                                  ![t].ran = TRUE]
    /\ UNCHANGED <<vmrMu, vmrStopOnce, vmrReturns>>
    /\ UNCHANGED <<loadVars, ocrVars>>

\* vmr.startOnce.Do(func() { vmr.vmc.StartCollection(); err = nil })
vmrStartOnceDo(t) ==
    /\ vmrCall[t].pc = "Do"
    /\ vmrCall[t].method = "StartMetricsReception"
    /\ IF ~vmrStartOnce
       THEN /\ vmcCalls' = Append(vmcCalls, "StartCollection")
            /\ vmrStartOnce' = TRUE
            /\ vmrCall' = [vmrCall EXCEPT ![t].pc = "Return",
                                          ![t].err = nilError,
                                          ![t].ran = TRUE]
       ELSE /\ vmrCall' = [vmrCall EXCEPT ![t].pc = "Return"]
            /\ UNCHANGED <<vmcCalls, vmrStartOnce>>
    /\ UNCHANGED <<vmrMu, vmrStopOnce, vmrReturns>>
    /\ UNCHANGED <<loadVars, ocrVars>>

\* vmr.stopOnce.Do without the once: the function runs in every call.
vmrStopOnceDo_EveryCall(t) ==
    /\ vmrCall[t].pc = "Do"
    /\ vmrCall[t].method = "StopMetricsReception"
    /\ vmcCalls' = Append(vmcCalls, "StopCollection")
    /\ vmrStopOnce' = TRUE
    /\ vmrCall' = [vmrCall EXCEPT ![t].pc = "Return", ![t].err = nilError,
                                  ![t].ran = TRUE]
    /\ UNCHANGED <<vmrMu, vmrStartOnce, vmrReturns>>
    /\ UNCHANGED <<loadVars, ocrVars>>

\* vmr.stopOnce.Do(func() { vmr.vmc.StopCollection(); err = nil })
vmrStopOnceDo(t) ==
    /\ vmrCall[t].pc = "Do"
    /\ vmrCall[t].method = "StopMetricsReception"
    /\ IF ~vmrStopOnce
       THEN /\ vmcCalls' = Append(vmcCalls, "StopCollection")
            /\ vmrStopOnce' = TRUE
            /\ vmrCall' = [vmrCall EXCEPT ![t].pc = "Return",
                                          ![t].err = nilError,
                                          ![t].ran = TRUE]
       ELSE /\ vmrCall' = [vmrCall EXCEPT ![t].pc = "Return"]
            /\ UNCHANGED <<vmcCalls, vmrStopOnce>>
    /\ UNCHANGED <<vmrMu, vmrStartOnce, vmrReturns>>
    /\ UNCHANGED <<loadVars, ocrVars>>

\* `return err`, and the deferred vmr.mu.Unlock().
vmrReturn(t) ==
    /\ vmrCall[t].pc = "Return"
    /\ vmrMu' = 0
    /\ vmrReturns' = Append(vmrReturns,
                            [method |-> vmrCall[t].method,
                             err |-> vmrCall[t].err, ran |-> vmrCall[t].ran,
                             afterStop |-> vmrCall[t].afterStop])
    /\ vmrCall' = [vmrCall EXCEPT ![t] = vmrIdle]
    /\ UNCHANGED <<vmrStartOnce, vmrStopOnce, vmcCalls>>
    /\ UNCHANGED <<loadVars, ocrVars>>

NextVM ==
    \/ \E t \in Callers : vmrStartMetricsReception(t)
    \/ \E t \in Callers : vmrStopMetricsReception(t)
    \/ \E t \in Callers : vmrLock(t)
    \/ \E t \in Callers : vmrStartOnceDo(t)
    \/ \E t \in Callers : vmrStopOnceDo(t)
    \/ \E t \in Callers : vmrReturn(t)

(***************************************************************************)
(* The OpenCensus receiver (package opencensusreceiver).                   *)
(***************************************************************************)
StartMethods == {"StartTraceReception", "StartMetricsReception"}
StopMethods == {"StopTraceReception", "StopMetricsReception"}

errNoConsumers == "cannot start receiver: no consumers were specified"

\* The errors of the goroutines of startServer.
\* The errors octrace.New and ocmetrics.New may return.
errNewTrace == "octrace.New failed"
errNewMetrics == "ocmetrics.New failed"

errDialTrace == "RegisterTraceServiceHandlerFromEndpoint failed"
errDialMetrics == "RegisterMetricsServiceHandlerFromEndpoint failed"
errMuxClosed == "cmux: accept on a closed listener"
errGRPCClosed == "grpc: accept on a closed listener"
errHTTPClosed == "http: Server closed"

\* No call in progress.  Of a call: pc, the method, err, whether the call
\* ran the function of its once (startServerOnce, stopOnce), hasConsumer of
\* start, and whether the call began after a start call had returned nil
\* (afterStart), after the stop body had executed (afterStop), or after a
\* start call had returned an error (afterFail).
ocrIdle ==
    [pc |-> "idle", method |-> "", err |-> nilError, ran |-> FALSE,
     hasConsumer |-> FALSE, afterStart |-> FALSE, afterStop |-> FALSE,
     afterFail |-> FALSE]

\* The goroutines startServer starts: its own, and the two that serve.
Goroutines == {"startServer", "grpc", "http"}

\* The Receiver New(addr, tc, mc) returns: the listener is bound, the
\* gateway mux exists, no server exists yet; `consumers` are the services
\* whose consumer is not nil.
ocrNew(consumers) ==
    /\ ocrConsumers = consumers
    /\ ocrMu = 0
    /\ ocrOnce = [o \in {"stopOnce", "startServerOnce", "startTraceReceiverOnce",
                         "startMetricsReceiverOnce"} |-> "new"]
    /\ ocrReceivers = [trace |-> "nil", metrics |-> "nil"]
    /\ ocrServerGRPC = [created |-> FALSE, services |-> <<>>, serve |-> "no",
                        stopped |-> FALSE]
    /\ ocrServerHTTP = [created |-> FALSE, serve |-> "no", closed |-> FALSE]
    /\ ocrLn = "open"
    /\ ocrMux = [created |-> FALSE, serve |-> "no", grpcL |-> "none",
                 httpL |-> "none", conns |-> <<>>]
    /\ ocrErrChan = <<>>
    /\ ocrGo = [g \in Goroutines |-> [pc |-> "none", err |-> nilError]]
    /\ ocrCall = [t \in Callers |-> ocrIdle]
    /\ ocrCalls = 0
    /\ ocrReturns = {}
    /\ ocrHost = {}

\* Some start call has returned nil.
ocrStartReturnedNil ==
    \E r \in ocrReturns : r.method \in StartMethods /\ r.err = nilError

\* Some start call has returned an error.
ocrStartReturnedError ==
    \E r \in ocrReturns : r.method \in StartMethods /\ r.err # nilError

\* What start returns for the error of startServer or of its own test, and
\* what Stop*Reception returns for the error of stop.
startResult(err) == IF err # nilError /\ err # errAlreadyStarted THEN err ELSE nilError

\* Stop*Reception returning the error of stop as it is.
stopResult_Unfiltered(err) == err

stopResult(err) == IF err # errAlreadyStopped THEN err ELSE nilError

\* The call of caller t goes on as `call`; at pc "Return" it returns
\* through Start*Reception or Stop*Reception.
ocrCallTo(t, call) ==
    IF call.pc = "Return"
    THEN /\ ocrReturns' = ocrReturns \cup
                {[method |-> call.method,
                  err |-> IF call.method \in StartMethods
                          THEN startResult(call.err) ELSE stopResult(call.err),
                  ran |-> call.ran, afterStart |-> call.afterStart,
                  afterStop |-> call.afterStop,
                  afterFail |-> call.afterFail]}
         /\ ocrCall' = [ocrCall EXCEPT ![t] = ocrIdle]
    ELSE /\ ocrCall' = [ocrCall EXCEPT ![t] = call]
         /\ UNCHANGED ocrReturns

\* Caller t calls method m, whose first step is at pc0.  So that callers
\* which differ in their number only are not told apart, the idle caller of
\* the lowest number makes the next call.
ocrBegin(t, m, pc0) ==
    /\ ocrCall[t].pc = "idle"
    /\ \A u \in Callers : u < t => ocrCall[u].pc # "idle"
    /\ ocrCalls < MaxOCCalls
    /\ ocrCalls' = ocrCalls + 1
    /\ ocrCall' = [ocrCall EXCEPT ![t] =
                      [ocrIdle EXCEPT !.pc = pc0, !.method = m,
                                      !.afterStart = ocrStartReturnedNil,
                                      !.afterStop = m \in StartMethods /\
                                                    ocrOnce.stopOnce = "done",
                                      !.afterFail = m \in StartMethods /\
                                                    ocrStartReturnedError]]
    /\ UNCHANGED <<loadVars, vmrVars>>
    /\ UNCHANGED <<ocrConsumers, ocrMu, ocrOnce, ocrReceivers, ocrServerGRPC,
                   ocrServerHTTP, ocrLn, ocrMux, ocrErrChan, ocrGo, ocrReturns,
                   ocrHost>>

\* StartTraceReception(host): `return ocr.start()`; the host is not used.
ocrStartTraceReception(t) == ocrBegin(t, "StartTraceReception", "registerTrace")

\* StartMetricsReception(host): `return ocr.start()`; the host is not used.
ocrStartMetricsReception(t) ==
    ocrBegin(t, "StartMetricsReception", "registerTrace")

\* StopTraceReception(): ocr.stop().
ocrStopTraceReception(t) == ocrBegin(t, "StopTraceReception", "Lock")

\* StopMetricsReception(): ocr.stop().
ocrStopMetricsReception(t) == ocrBegin(t, "StopMetricsReception", "Lock")

\* start: `if ocr.traceConsumer != nil`, and registerTraceConsumer up to
\* octrace.New.  A sync.Once that is running blocks its other callers; one
\* that is done leaves errAlreadyStarted, which start ignores.  octrace.New
\* gives the receiver, or nil and an error: then nothing is registered, the
\* once is done and start returns the error.
ocrRegisterTraceConsumer(t) ==
    /\ ocrCall[t].pc = "registerTrace"
    /\ IF "trace" \notin ocrConsumers
       THEN /\ ocrCallTo(t, [ocrCall[t] EXCEPT !.pc = "registerMetrics"])
            /\ UNCHANGED <<ocrOnce, ocrReceivers>>
       ELSE /\ ocrOnce.startTraceReceiverOnce # "running"
            /\ IF ocrOnce.startTraceReceiverOnce = "done"
               THEN /\ ocrCallTo(t, [ocrCall[t] EXCEPT !.pc = "registerMetrics",
                                                       !.hasConsumer = TRUE])
                    /\ UNCHANGED <<ocrOnce, ocrReceivers>>
               ELSE \/ /\ ocrOnce' = [ocrOnce EXCEPT
                                         !.startTraceReceiverOnce = "running"]
                       /\ ocrReceivers' = [ocrReceivers EXCEPT !.trace = "created"]
                       /\ ocrCallTo(t, [ocrCall[t] EXCEPT !.pc = "traceService",
                                                          !.hasConsumer = TRUE])
                    \/ /\ ocrOnce' = [ocrOnce EXCEPT
                                         !.startTraceReceiverOnce = "done"]
                       /\ UNCHANGED ocrReceivers
                       /\ ocrCallTo(t, [ocrCall[t] EXCEPT !.pc = "Return",
                                                          !.err = errNewTrace,
                                                          !.hasConsumer = TRUE])
    /\ UNCHANGED <<loadVars, vmrVars>>
    /\ UNCHANGED <<ocrConsumers, ocrMu, ocrServerGRPC, ocrServerHTTP, ocrLn,
                   ocrMux, ocrErrChan, ocrGo, ocrCalls, ocrHost>>

\* grpcServer(): under ocr.mu, the server is created unless it exists.
grpcServer(srv) == [srv EXCEPT !.created = TRUE]

\* registerTraceConsumer, `srv := ocr.grpcServer()`: the mutex is taken,
\* the server is created unless it exists, the mutex is released.
ocrTraceGRPCServer(t) ==
    /\ ocrCall[t].pc = "traceService"
    /\ ocrMu = 0
    /\ ocrServerGRPC' = grpcServer(ocrServerGRPC)
    /\ ocrCall' = [ocrCall EXCEPT ![t].pc = "traceRegister"]
    /\ UNCHANGED <<loadVars, vmrVars>>
    /\ UNCHANGED <<ocrConsumers, ocrMu, ocrOnce, ocrReceivers, ocrServerHTTP,
                   ocrLn, ocrMux, ocrErrChan, ocrGo, ocrCalls, ocrReturns,
                   ocrHost>>

\* registerTraceConsumer, the rest of the once:
\* RegisterTraceServiceServer(srv, ocr.traceReceiver), outside the mutex.
ocrRegisterTraceService(t) ==
    /\ ocrCall[t].pc = "traceRegister"
    /\ ocrServerGRPC' = [ocrServerGRPC EXCEPT !.services = Append(@, "trace")]
    /\ ocrOnce' = [ocrOnce EXCEPT !.startTraceReceiverOnce = "done"]
    /\ ocrCall' = [ocrCall EXCEPT ![t].pc = "registerMetrics"]
    /\ UNCHANGED <<loadVars, vmrVars>>
    /\ UNCHANGED <<ocrConsumers, ocrMu, ocrReceivers, ocrServerHTTP, ocrLn,
                   ocrMux, ocrErrChan, ocrGo, ocrCalls, ocrReturns, ocrHost>>

\* start without the test of hasConsumer.
ocrAfterRegister_NoTest(call) == [call EXCEPT !.pc = "startServer"]

\* start after the two registrations: `if !hasConsumer` returns the error,
\* else startServer is next.
ocrAfterRegister(call) ==
    IF call.hasConsumer THEN [call EXCEPT !.pc = "startServer"]
    ELSE [call EXCEPT !.pc = "Return", !.err = errNoConsumers]

\* start: `if ocr.metricsConsumer != nil`, and registerMetricsConsumer up
\* to ocmetrics.New, which gives the receiver, or nil and an error: then
\* nothing is registered, the once is done and start returns the error.
ocrRegisterMetricsConsumer(t) ==
    /\ ocrCall[t].pc = "registerMetrics"
    /\ IF "metrics" \notin ocrConsumers
       THEN /\ ocrCallTo(t, ocrAfterRegister(ocrCall[t]))
            /\ UNCHANGED <<ocrOnce, ocrReceivers>>
       ELSE /\ ocrOnce.startMetricsReceiverOnce # "running"
            /\ IF ocrOnce.startMetricsReceiverOnce = "done"
               THEN /\ ocrCallTo(t, ocrAfterRegister(
                                       [ocrCall[t] EXCEPT !.hasConsumer = TRUE]))
                    /\ UNCHANGED <<ocrOnce, ocrReceivers>>
               ELSE \/ /\ ocrOnce' = [ocrOnce EXCEPT
                                         !.startMetricsReceiverOnce = "running"]
                       /\ ocrReceivers' = [ocrReceivers EXCEPT
                                              !.metrics = "created"]
                       /\ ocrCallTo(t, [ocrCall[t] EXCEPT !.pc = "metricsService",
                                                          !.hasConsumer = TRUE])
                    \/ /\ ocrOnce' = [ocrOnce EXCEPT
                                         !.startMetricsReceiverOnce = "done"]
                       /\ UNCHANGED ocrReceivers
                       /\ ocrCallTo(t, [ocrCall[t] EXCEPT !.pc = "Return",
                                                          !.err = errNewMetrics,
                                                          !.hasConsumer = TRUE])
    /\ UNCHANGED <<loadVars, vmrVars>>
    /\ UNCHANGED <<ocrConsumers, ocrMu, ocrServerGRPC, ocrServerHTTP, ocrLn,
                   ocrMux, ocrErrChan, ocrGo, ocrCalls, ocrHost>>

\* registerMetricsConsumer, `srv := ocr.grpcServer()`: the mutex is taken,
\* the server is created unless it exists, the mutex is released.
ocrMetricsGRPCServer(t) ==
    /\ ocrCall[t].pc = "metricsService"
    /\ ocrMu = 0
    /\ ocrServerGRPC' = grpcServer(ocrServerGRPC)
    /\ ocrCall' = [ocrCall EXCEPT ![t].pc = "metricsRegister"]
    /\ UNCHANGED <<loadVars, vmrVars>>
    /\ UNCHANGED <<ocrConsumers, ocrMu, ocrOnce, ocrReceivers, ocrServerHTTP,
                   ocrLn, ocrMux, ocrErrChan, ocrGo, ocrCalls, ocrReturns,
                   ocrHost>>

\* registerMetricsConsumer, the rest of the once:
\* RegisterMetricsServiceServer(srv, ocr.metricsReceiver), outside the
\* mutex; start goes on after the two registrations.
ocrRegisterMetricsService(t) ==
    /\ ocrCall[t].pc = "metricsRegister"
    /\ ocrServerGRPC' = [ocrServerGRPC EXCEPT !.services = Append(@, "metrics")]
    /\ ocrOnce' = [ocrOnce EXCEPT !.startMetricsReceiverOnce = "done"]
    /\ ocrCallTo(t, ocrAfterRegister(ocrCall[t]))
    /\ UNCHANGED <<loadVars, vmrVars>>
    /\ UNCHANGED <<ocrConsumers, ocrMu, ocrReceivers, ocrServerHTTP, ocrLn,
                   ocrMux, ocrErrChan, ocrGo, ocrCalls, ocrHost>>

\* startServer without the once: every call runs the function.
ocrStartServer_EveryCall(t) ==
    /\ ocrCall[t].pc = "startServer"
    /\ ocrOnce.startServerOnce # "running"
    /\ ocrOnce' = [ocrOnce EXCEPT !.startServerOnce = "running"]
    /\ ocrErrChan' = <<>>
    /\ ocrGo' = [ocrGo EXCEPT !["startServer"] =
                    [pc |-> "RegisterTraceHandler", err |-> nilError]]
    /\ ocrCallTo(t, [ocrCall[t] EXCEPT !.pc = "select", !.ran = TRUE])
    /\ UNCHANGED <<loadVars, vmrVars>>
    /\ UNCHANGED <<ocrConsumers, ocrMu, ocrReceivers, ocrServerGRPC,
                   ocrServerHTTP, ocrLn, ocrMux, ocrCalls, ocrHost>>

\* startServer: `err := errAlreadyStarted`, then ocr.startServerOnce.Do up
\* to the select: errChan is made and the goroutine is started.  A once
\* that is done leaves errAlreadyStarted.
ocrStartServer(t) ==
    /\ ocrCall[t].pc = "startServer"
    /\ ocrOnce.startServerOnce # "running"
    /\ IF ocrOnce.startServerOnce = "done"
       THEN /\ ocrCallTo(t, [ocrCall[t] EXCEPT !.pc = "Return",
                                               !.err = errAlreadyStarted])
            /\ UNCHANGED <<ocrOnce, ocrErrChan, ocrGo>>
       ELSE /\ ocrOnce' = [ocrOnce EXCEPT !.startServerOnce = "running"]
            /\ ocrErrChan' = <<>>
            /\ ocrGo' = [ocrGo EXCEPT !["startServer"] =
                            [pc |-> "RegisterTraceHandler", err |-> nilError]]
            /\ ocrCallTo(t, [ocrCall[t] EXCEPT !.pc = "select", !.ran = TRUE])
    /\ UNCHANGED <<loadVars, vmrVars>>
    /\ UNCHANGED <<ocrConsumers, ocrMu, ocrReceivers, ocrServerGRPC,
                   ocrServerHTTP, ocrLn, ocrMux, ocrCalls, ocrHost>>

\* The select of startServer, `case serr := <-errChan`: err = serr, and
\* start returns.
ocrSelectError(t) ==
    /\ ocrCall[t].pc = "select"
    /\ ocrErrChan # <<>>
    /\ ocrCallTo(t, [ocrCall[t] EXCEPT !.pc = "Return", !.err = Head(ocrErrChan)])
    /\ ocrErrChan' = Tail(ocrErrChan)
    /\ ocrOnce' = [ocrOnce EXCEPT !.startServerOnce = "done"]
    /\ UNCHANGED <<loadVars, vmrVars>>
    /\ UNCHANGED <<ocrConsumers, ocrMu, ocrReceivers, ocrServerGRPC,
                   ocrServerHTTP, ocrLn, ocrMux, ocrGo, ocrCalls, ocrHost>>

\* The select of startServer, `case <-time.After(1 * time.Second)`, taken
\* when no error has come in that time: err = nil, and start returns.
ocrSelectTimeout(t) ==
    /\ ocrCall[t].pc = "select"
    /\ ocrErrChan = <<>>
    /\ ocrCallTo(t, [ocrCall[t] EXCEPT !.pc = "Return", !.err = nilError])
    /\ ocrOnce' = [ocrOnce EXCEPT !.startServerOnce = "done"]
    /\ UNCHANGED <<loadVars, vmrVars>>
    /\ UNCHANGED <<ocrConsumers, ocrMu, ocrReceivers, ocrServerGRPC,
                   ocrServerHTTP, ocrLn, ocrMux, ocrErrChan, ocrGo, ocrCalls,
                   ocrHost>>

\* stop: ocr.mu.Lock(), then `var err = errAlreadyStopped`.
ocrLock(t) ==
    /\ ocrCall[t].pc = "Lock"
    /\ ocrMu = 0
    /\ ocrMu' = t
    /\ ocrCall' = [ocrCall EXCEPT ![t].pc = "stopOnce",
                                  ![t].err = errAlreadyStopped]
    /\ UNCHANGED <<loadVars, vmrVars>>
    /\ UNCHANGED <<ocrConsumers, ocrOnce, ocrReceivers, ocrServerGRPC,
                   ocrServerHTTP, ocrLn, ocrMux, ocrErrChan, ocrGo, ocrCalls,
                   ocrReturns, ocrHost>>

\* The values a read of ocr.traceReceiver by stop may give: octrace.New
\* writes the field outside ocr.mu, so until the writer has taken ocr.mu
\* the read races with the write.
ocrTraceReceiverRead ==
    IF \E t \in Callers : ocrCall[t].pc = "traceService"
    THEN {"nil", ocrReceivers.trace}
    ELSE {ocrReceivers.trace}

\* (*http.Server).Close(): the server is closed, and so is the listener it
\* serves on.
httpClose(srv) == [srv EXCEPT !.closed = TRUE]

\* stop: ocr.stopOnce.Do, under ocr.mu, then the deferred ocr.mu.Unlock()
\* and the return.  The function stops the trace receiver if there is one,
\* closes the HTTP server if there is one, and closes the listener; it
\* makes no call on the gRPC server.
ocrStopOnceDo(t) ==
    /\ ocrCall[t].pc = "stopOnce"
    /\ IF ocrOnce.stopOnce = "new"
       THEN /\ \E seen \in ocrTraceReceiverRead :
                  ocrReceivers' = IF seen = "nil" THEN ocrReceivers
                                  ELSE [ocrReceivers EXCEPT !.trace = "stopped"]
            /\ ocrServerHTTP' = IF ocrServerHTTP.created
                                THEN httpClose(ocrServerHTTP)
                                ELSE ocrServerHTTP
            /\ ocrMux' = IF ocrServerHTTP.created /\ ocrServerHTTP.serve = "serving"
                         THEN [ocrMux EXCEPT !.httpL = "closed"]
                         ELSE ocrMux
            /\ ocrLn' = "closed"
            /\ ocrOnce' = [ocrOnce EXCEPT !.stopOnce = "done"]
            /\ ocrCallTo(t, [ocrCall[t] EXCEPT !.pc = "Return",
                                               !.err = nilError, !.ran = TRUE])
       ELSE /\ ocrCallTo(t, [ocrCall[t] EXCEPT !.pc = "Return"])
            /\ UNCHANGED <<ocrReceivers, ocrServerHTTP, ocrMux, ocrLn, ocrOnce>>
    /\ ocrMu' = 0
    /\ UNCHANGED <<loadVars, vmrVars>>
    /\ UNCHANGED <<ocrConsumers, ocrServerGRPC, ocrErrChan, ocrGo, ocrCalls,
                   ocrHost>>

(***************************************************************************)
(* The goroutines of startServer.                                          *)
(***************************************************************************)
\* make(chan error, 1)
ErrChanCap == 1

\* Goroutine g goes to pc1 holding err.
ocrGoTo(g, pc1, err) == ocrGo' = [ocrGo EXCEPT ![g] = [pc |-> pc1, err |-> err]]

\* RegisterTraceServiceHandlerFromEndpoint: it dials the endpoint of ocr.ln
\* and may fail; on an error the goroutine sends it and returns.
ocrRegisterTraceHandler ==
    /\ ocrGo["startServer"].pc = "RegisterTraceHandler"
    /\ \/ ocrGoTo("startServer", "RegisterMetricsHandler", nilError)
       \/ ocrGoTo("startServer", "send", errDialTrace)
    /\ UNCHANGED <<loadVars, vmrVars>>
    /\ UNCHANGED <<ocrConsumers, ocrMu, ocrOnce, ocrReceivers, ocrServerGRPC,
                   ocrServerHTTP, ocrLn, ocrMux, ocrErrChan, ocrCall,
                   ocrCalls, ocrReturns, ocrHost>>

\* RegisterMetricsServiceHandlerFromEndpoint, likewise.
ocrRegisterMetricsHandler ==
    /\ ocrGo["startServer"].pc = "RegisterMetricsHandler"
    /\ \/ ocrGoTo("startServer", "cmux", nilError)
       \/ ocrGoTo("startServer", "send", errDialMetrics)
    /\ UNCHANGED <<loadVars, vmrVars>>
    /\ UNCHANGED <<ocrConsumers, ocrMu, ocrOnce, ocrReceivers, ocrServerGRPC,
                   ocrServerHTTP, ocrLn, ocrMux, ocrErrChan, ocrCall,
                   ocrCalls, ocrReturns, ocrHost>>

\* m := cmux.New(ocr.ln), its two listeners, and the two `go` statements:
\* the goroutines that will serve exist, neither has called Serve.
ocrCmux ==
    /\ ocrGo["startServer"].pc = "cmux"
    /\ ocrMux' = [ocrMux EXCEPT !.created = TRUE, !.grpcL = "open",
                                !.httpL = "open"]
    /\ ocrGo' = [ocrGo EXCEPT !["startServer"].pc = "mServe",
                              !["grpc"].pc = "Serve",
                              !["http"].pc = "httpServer"]
    /\ UNCHANGED <<loadVars, vmrVars>>
    /\ UNCHANGED <<ocrConsumers, ocrMu, ocrOnce, ocrReceivers, ocrServerGRPC,
                   ocrServerHTTP, ocrLn, ocrErrChan, ocrCall, ocrCalls,
                   ocrReturns, ocrHost>>

\* m.Serve() is called: the loop that accepts on ocr.ln begins.
ocrMuxServe ==
    /\ ocrGo["startServer"].pc = "mServe"
    /\ ocrMux' = [ocrMux EXCEPT !.serve = "serving"]
    /\ ocrGoTo("startServer", "accept", nilError)
    /\ UNCHANGED <<loadVars, vmrVars>>
    /\ UNCHANGED <<ocrConsumers, ocrMu, ocrOnce, ocrReceivers, ocrServerGRPC,
                   ocrServerHTTP, ocrLn, ocrErrChan, ocrCall, ocrCalls,
                   ocrReturns, ocrHost>>

\* The content types a connection may show to the matchers: one of the two
\* of gRPC, another one, or none (no such HTTP/2 header field, as for a
\* connection that does not speak HTTP/2).
grpcContentTypes == {"application/grpc", "application/grpc+proto"}
ContentTypes == grpcContentTypes \cup {"application/json", "none"}

\* The matchers as written, but cmux.Any() registered first.
muxMatchers_AnyFirst ==
    <<[listener |-> "httpL", matches |-> ContentTypes],
      [listener |-> "grpcL", matches |-> grpcContentTypes]>>

\* The matchers of m in the order of their registration: grpcL matches the
\* HTTP/2 header field content-type with either of the two values, httpL
\* matches cmux.Any().
muxMatchers ==
    <<[listener |-> "grpcL", matches |-> grpcContentTypes],
      [listener |-> "httpL", matches |-> ContentTypes]>>

\* cmux: the listener of the first matcher (from index i) that matches the
\* connection, "" when none does and the connection is closed.
RECURSIVE muxMatch(_, _, _)
muxMatch(matchers, hdr, i) ==
    IF i > Len(matchers) THEN ""
    ELSE IF hdr \in matchers[i].matches THEN matchers[i].listener
    ELSE muxMatch(matchers, hdr, i + 1)

\* m.Serve(): a connection is accepted on ocr.ln and handed to the listener
\* its content type matches.
ocrMuxAccept ==
    /\ ocrGo["startServer"].pc = "accept"
    /\ ocrLn = "open"
    /\ Len(ocrMux.conns) < MaxConns
    /\ \E hdr \in ContentTypes :
          ocrMux' = [ocrMux EXCEPT !.conns =
                        Append(@, [hdr |-> hdr,
                                   listener |-> muxMatch(muxMatchers, hdr, 1),
                                   handler |-> "none"])]
    /\ UNCHANGED <<loadVars, vmrVars>>
    /\ UNCHANGED <<ocrConsumers, ocrMu, ocrOnce, ocrReceivers, ocrServerGRPC,
                   ocrServerHTTP, ocrLn, ocrErrChan, ocrGo, ocrCall, ocrCalls,
                   ocrReturns, ocrHost>>

\* m.Serve() returns: the accept on ocr.ln fails once ocr.ln is closed, and
\* cmux closes its listeners.
ocrMuxServeReturn ==
    /\ ocrGo["startServer"].pc = "accept"
    /\ ocrLn = "closed"
    /\ ocrMux' = [ocrMux EXCEPT !.serve = "returned", !.grpcL = "closed",
                                !.httpL = "closed"]
    /\ ocrGoTo("startServer", "send", errMuxClosed)
    /\ UNCHANGED <<loadVars, vmrVars>>
    /\ UNCHANGED <<ocrConsumers, ocrMu, ocrOnce, ocrReceivers, ocrServerGRPC,
                   ocrServerHTTP, ocrLn, ocrErrChan, ocrCall, ocrCalls,
                   ocrReturns, ocrHost>>

\* `errChan <- err` of goroutine g: it blocks while the buffer is full.
ocrSend(g) ==
    /\ ocrGo[g].pc = "send"
    /\ Len(ocrErrChan) < ErrChanCap
    /\ ocrErrChan' = Append(ocrErrChan, ocrGo[g].err)
    /\ ocrGo' = [ocrGo EXCEPT ![g].pc = "done"]
    /\ UNCHANGED <<loadVars, vmrVars>>
    /\ UNCHANGED <<ocrConsumers, ocrMu, ocrOnce, ocrReceivers, ocrServerGRPC,
                   ocrServerHTTP, ocrLn, ocrMux, ocrCall, ocrCalls,
                   ocrReturns, ocrHost>>

\* ocr.serverGRPC.Serve(grpcL) is called.  When no registration has made
\* the server, ocr.serverGRPC is nil and the call panics: the process ends,
\* and with it every goroutine and every caller.
ocrGRPCServe ==
    /\ ocrGo["grpc"].pc = "Serve"
    /\ IF ocrServerGRPC.created
       THEN /\ ocrServerGRPC' = [ocrServerGRPC EXCEPT !.serve = "serving"]
            /\ ocrGoTo("grpc", "serving", nilError)
            /\ UNCHANGED ocrCall
       ELSE /\ ocrGo' = [g \in Goroutines |->
                            [pc |-> "panicked", err |-> nilError]]
            /\ ocrCall' = [t \in Callers |-> [ocrIdle EXCEPT !.pc = "panicked"]]
            /\ UNCHANGED ocrServerGRPC
    /\ UNCHANGED <<loadVars, vmrVars>>
    /\ UNCHANGED <<ocrConsumers, ocrMu, ocrOnce, ocrReceivers, ocrServerHTTP,
                   ocrLn, ocrMux, ocrErrChan, ocrCalls, ocrReturns, ocrHost>>

\* The connection i of the listener l is accepted by its server.
ocrHandle(i, l, handler) ==
    /\ i \in 1..Len(ocrMux.conns)
    /\ ocrMux[l] = "open"
    /\ ocrMux.conns[i].listener = l
    /\ ocrMux.conns[i].handler = "none"
    /\ ocrMux' = [ocrMux EXCEPT !.conns[i].handler = handler]

\* Serve(grpcL): a connection of grpcL is accepted and served.
ocrGRPCAccept ==
    /\ ocrGo["grpc"].pc = "serving"
    /\ \E i \in 1..MaxConns : ocrHandle(i, "grpcL", "rpc")
    /\ UNCHANGED <<loadVars, vmrVars>>
    /\ UNCHANGED <<ocrConsumers, ocrMu, ocrOnce, ocrReceivers, ocrServerGRPC,
                   ocrServerHTTP, ocrLn, ocrErrChan, ocrGo, ocrCall, ocrCalls,
                   ocrReturns, ocrHost>>

\* Serve(grpcL) returns: the accept on grpcL fails once it is closed.
ocrGRPCServeReturn ==
    /\ ocrGo["grpc"].pc = "serving"
    /\ ocrMux.grpcL = "closed"
    /\ ocrServerGRPC' = [ocrServerGRPC EXCEPT !.serve = "returned"]
    /\ ocrGoTo("grpc", "send", errGRPCClosed)
    /\ UNCHANGED <<loadVars, vmrVars>>
    /\ UNCHANGED <<ocrConsumers, ocrMu, ocrOnce, ocrReceivers, ocrServerHTTP,
                   ocrLn, ocrMux, ocrErrChan, ocrCall, ocrCalls, ocrReturns,
                   ocrHost>>

\* httpServer(): under ocr.mu, the server is created unless it exists.
httpServer(srv) == [srv EXCEPT !.created = TRUE]

\* ocr.httpServer() of the goroutine that serves HTTP.
ocrHTTPServer ==
    /\ ocrGo["http"].pc = "httpServer"
    /\ ocrMu = 0
    /\ ocrServerHTTP' = httpServer(ocrServerHTTP)
    /\ ocrGoTo("http", "Serve", nilError)
    /\ UNCHANGED <<loadVars, vmrVars>>
    /\ UNCHANGED <<ocrConsumers, ocrMu, ocrOnce, ocrReceivers, ocrServerGRPC,
                   ocrLn, ocrMux, ocrErrChan, ocrCall, ocrCalls, ocrReturns,
                   ocrHost>>

\* Serve(httpL) is called; on a server that is closed it closes httpL and
\* returns at once.
ocrHTTPServe ==
    /\ ocrGo["http"].pc = "Serve"
    /\ IF ocrServerHTTP.closed
       THEN /\ ocrServerHTTP' = [ocrServerHTTP EXCEPT !.serve = "returned"]
            /\ ocrMux' = [ocrMux EXCEPT !.httpL = "closed"]
            /\ ocrGoTo("http", "send", errHTTPClosed)
       ELSE /\ ocrServerHTTP' = [ocrServerHTTP EXCEPT !.serve = "serving"]
            /\ ocrGoTo("http", "serving", nilError)
            /\ UNCHANGED ocrMux
    /\ UNCHANGED <<loadVars, vmrVars>>
    /\ UNCHANGED <<ocrConsumers, ocrMu, ocrOnce, ocrReceivers, ocrServerGRPC,
                   ocrLn, ocrErrChan, ocrCall, ocrCalls, ocrReturns, ocrHost>>

\* Serve(httpL): a connection of httpL is accepted and served.
ocrHTTPAccept ==
    /\ ocrGo["http"].pc = "serving"
    /\ \E i \in 1..MaxConns : ocrHandle(i, "httpL", "rest")
    /\ UNCHANGED <<loadVars, vmrVars>>
    /\ UNCHANGED <<ocrConsumers, ocrMu, ocrOnce, ocrReceivers, ocrServerGRPC,
                   ocrServerHTTP, ocrLn, ocrErrChan, ocrGo, ocrCall, ocrCalls,
                   ocrReturns, ocrHost>>

\* Serve(httpL) returns: the accept on httpL fails once it is closed.
ocrHTTPServeReturn ==
    /\ ocrGo["http"].pc = "serving"
    /\ ocrMux.httpL = "closed"
    /\ ocrServerHTTP' = [ocrServerHTTP EXCEPT !.serve = "returned"]
    /\ ocrGoTo("http", "send", errHTTPClosed)
    /\ UNCHANGED <<loadVars, vmrVars>>
    /\ UNCHANGED <<ocrConsumers, ocrMu, ocrOnce, ocrReceivers, ocrServerGRPC,
                   ocrLn, ocrMux, ocrErrChan, ocrCall, ocrCalls, ocrReturns,
                   ocrHost>>

\* A step of a call of caller t.
ocrCallStep(t) ==
    \/ ocrStartTraceReception(t)
    \/ ocrStartMetricsReception(t)
    \/ ocrStopTraceReception(t)
    \/ ocrStopMetricsReception(t)
    \/ ocrRegisterTraceConsumer(t)
    \/ ocrTraceGRPCServer(t)
    \/ ocrRegisterTraceService(t)
    \/ ocrRegisterMetricsConsumer(t)
    \/ ocrMetricsGRPCServer(t)
    \/ ocrRegisterMetricsService(t)
    \/ ocrStartServer(t)
    \/ ocrSelectError(t)
    \/ ocrSelectTimeout(t)
    \/ ocrLock(t)
    \/ ocrStopOnceDo(t)

\* A step of a goroutine of startServer, no connection being made.
ocrGoroutineStep ==
    \/ ocrRegisterTraceHandler
    \/ ocrRegisterMetricsHandler
    \/ ocrCmux
    \/ ocrMuxServe
    \/ ocrMuxServeReturn
    \/ \E g \in Goroutines : ocrSend(g)
    \/ ocrGRPCServe
    \/ ocrGRPCServeReturn
    \/ ocrHTTPServer
    \/ ocrHTTPServe
    \/ ocrHTTPServeReturn

\* The receiver called by several goroutines, without clients.
NextOC ==
    \/ \E t \in Callers : ocrCallStep(t)
    \/ ocrGoroutineStep

\* The receiver called by one goroutine, with clients that connect.
NextMux ==
    \/ ocrCallStep(1)
    \/ ocrGoroutineStep
    \/ ocrMuxAccept
    \/ ocrGRPCAccept
    \/ ocrHTTPAccept

(***************************************************************************)
(* The inputs of Load.                                                     *)
(***************************************************************************)
\* The sequences over `alphabet` of length at most n.
Strings(alphabet, n) == UNION {[1..k -> alphabet] : k \in 0..n}

KeySymbols == {"a", "b", "/", " "}
PipelineKeySymbols == {"traces", "metrics", "/", " "}

\* Two full names of components.
NameA == <<"a">>
NameAB == <<"a", "/", "b">>

Unset == [disabled |-> "unset"]
Invalid == [disabled |-> "invalid"]

PipelineSettings(r, p, e) ==
    [receivers |-> r, processors |-> p, exporters |-> e, malformed |-> FALSE]

\* A well-formed configuration: one component "a" of each kind and one
\* traces pipeline that uses them.
DefaultViper ==
    [receivers |-> NameA :> Unset,
     exporters |-> NameA :> Unset,
     processors |-> NameA :> Unset,
     pipelines |-> TracesDataTypeStr :>
                     PipelineSettings(<<NameA>>, <<NameA>>, <<NameA>>)]

\* Inputs where one section holds, next to the key "a" (next to "traces"
\* for the pipelines), one key out of all the strings up to MaxKeyLen.
SingleKeyInput ==
    \/ \E sec \in {"receivers", "exporters", "processors"},
          k \in Strings(KeySymbols, MaxKeyLen) :
          viper = [DefaultViper EXCEPT
                      ![sec] = (k :> Unset) @@ (NameA :> Unset)]
    \/ \E k \in Strings(PipelineKeySymbols, MaxKeyLen), p \in {<<>>, <<NameA>>} :
          viper = [DefaultViper EXCEPT
                      !.pipelines =
                          (k :> PipelineSettings(<<NameA>>, p, <<NameA>>))
                          @@ DefaultViper.pipelines]

\* Keys of a component section: two that normalise to "a", two that
\* normalise to "a/b", one of an unknown type and one without type part.
ComponentKeys ==
    {<<"a">>, <<"a", " ">>, <<"a", "/", "b">>, <<"a", "/", " ", "b">>,
     <<"b">>, <<"/">>}

\* Keys of the pipelines section, likewise.
PipelineKeys ==
    {<<"traces">>, <<"traces", " ">>, <<"metrics">>, <<"traces", "/", "a">>,
     <<"a">>, <<"/">>}

\* Inputs where one section holds any set of these keys (none included),
\* each with settings that decode or do not.
KeySetInput ==
    \/ \E sec \in {"receivers", "exporters", "processors"},
          S \in SUBSET ComponentKeys :
          \E m \in [S -> {Unset, Invalid}] :
              viper = [DefaultViper EXCEPT ![sec] = m]
    \/ \E S \in SUBSET PipelineKeys :
          \E M \in SUBSET S :
              viper = [DefaultViper EXCEPT
                          !.pipelines =
                              [k \in S |->
                                  [PipelineSettings(
                                       <<NameA>>,
                                       IF k = MetricsDataTypeStr THEN <<>>
                                       ELSE <<NameA>>,
                                       <<NameA>>)
                                   EXCEPT !.malformed = (k \in M)]]]

Disabled == [disabled |-> "true"]

\* Sections of well-formed keys: "a" alone or "a" and "a/b", each enabled
\* or disabled.
ReferenceSections ==
    {NameA :> d : d \in {Unset, Disabled}}
    \cup
    {(NameA :> d1) @@ (NameAB :> d2) :
        d1 \in {Unset, Disabled}, d2 \in {Unset, Disabled}}

\* The reference lists of a pipeline: up to MaxRefs names, "a/b" being a
\* name that may or may not exist.
ReferenceLists == Strings({NameA, NameAB}, MaxRefs)

\* One kind of component in full: every section with every reference list.
FullKind ==
    {[section |-> s, refs |-> l] : s \in ReferenceSections, l \in ReferenceLists}

\* One kind of component in short: a reference that is kept, one that is
\* pruned with nothing enabled left, one that is pruned while another
\* component stays enabled, no reference, and a name that does not exist.
ShortKind ==
    {[section |-> NameA :> Unset, refs |-> <<NameA>>],
     [section |-> NameA :> Disabled, refs |-> <<NameA>>],
     [section |-> (NameA :> Disabled) @@ (NameAB :> Unset), refs |-> <<NameA>>],
     [section |-> NameA :> Unset, refs |-> <<>>],
     [section |-> NameA :> Unset, refs |-> <<NameAB>>]}

\* The same without processors at all.
NoProcessors == {[section |-> EmptyMap, refs |-> l] : l \in ReferenceLists}

\* Inputs of well-formed keys with one pipeline, traces or metrics: one
\* kind of component is taken in full, the two others in short.
ReferenceInputOf(rs, es, ps) ==
    \E r \in rs, e \in es, p \in ps,
       k \in {TracesDataTypeStr, MetricsDataTypeStr} :
        viper = [receivers |-> r.section, exporters |-> e.section,
                 processors |-> p.section,
                 pipelines |-> k :> PipelineSettings(r.refs, p.refs, e.refs)]

ReferenceInput ==
    \/ ReferenceInputOf(FullKind, ShortKind, ShortKind)
    \/ ReferenceInputOf(ShortKind, FullKind, ShortKind)
    \/ ReferenceInputOf(ShortKind, ShortKind, FullKind \cup NoProcessors)

\* Inputs with a traces and a metrics pipeline that share the receivers and
\* the exporters: every section of receivers (of exporters) with every pair
\* of reference lists.
TwoPipelineInput ==
    \E s \in ReferenceSections, l1 \in ReferenceLists, l2 \in ReferenceLists :
        \/ viper = [DefaultViper EXCEPT
                      !.receivers = s,
                      !.pipelines =
                          (TracesDataTypeStr :>
                              PipelineSettings(l1, <<NameA>>, <<NameA>>))
                          @@ (MetricsDataTypeStr :>
                              PipelineSettings(l2, <<>>, <<NameA>>))]
        \/ viper = [DefaultViper EXCEPT
                      !.exporters = s,
                      !.pipelines =
                          (TracesDataTypeStr :>
                              PipelineSettings(<<NameA>>, <<NameA>>, l1))
                          @@ (MetricsDataTypeStr :>
                              PipelineSettings(<<NameA>>, <<>>, l2))]

\* Load is called; no receiver is in use yet.
Init ==
    /\ \/ SingleKeyInput
       \/ KeySetInput
       \/ ReferenceInput
       \/ TwoPipelineInput
    /\ pc = "loadReceivers"
    /\ visited = {}
    /\ config = EmptyConfig
    /\ logger = <<>>
    /\ result = NotReturned
    /\ vmrNew
    /\ ocrNew({"trace", "metrics"})

Spec == Init /\ [][Next]_vars

\* Load is not called.
LoadNotCalled ==
    /\ viper = DefaultViper
    /\ pc = "loadReceivers"
    /\ visited = {}
    /\ config = EmptyConfig
    /\ logger = <<>>
    /\ result = NotReturned

\* The VM metrics receiver and the goroutines that call it.
InitVM == LoadNotCalled /\ vmrNew /\ ocrNew({"trace", "metrics"})

SpecVM == InitVM /\ [][NextVM]_vars

\* The OpenCensus receiver as New returns it, with either consumer nil or
\* not, and the goroutines that call it.
InitOC ==
    /\ LoadNotCalled
    /\ vmrNew
    /\ \E consumers \in SUBSET {"trace", "metrics"} : ocrNew(consumers)

SpecOC == InitOC /\ [][NextOC]_vars

\* The OpenCensus receiver with both consumers, one goroutine that calls
\* it and clients that connect to its listener.
InitMux == LoadNotCalled /\ vmrNew /\ ocrNew({"trace", "metrics"})

SpecMux == InitMux /\ [][NextMux]_vars


(***************************************************************************)
(* Vocabulary of the properties.                                           *)
(***************************************************************************)
\* Load has returned a config and a nil error.
Succeeded == result.returned /\ result.err = NoError

\* Load has returned an error.
Failed == result.returned /\ result.err # NoError

\* The config Load returned (when it succeeded).
Returned == result.config[1]

\* The full name a key normalises to.
NameOf(k) == decodeTypeAndName(k).fullName

\* The key k of a component section loads: it decodes, its type has a
\* factory and its settings decode.
KeyLoads(k, settings, factories) ==
    /\ decodeTypeAndName(k).err = ""
    /\ decodeTypeAndName(k).typeStr \in factories
    /\ ~UnmarshalFails(settings)

\* Every key of the component section loads.
KeysLoad(section, factories) ==
    \A k \in DOMAIN viper[section] : KeyLoads(k, viper[section][k], factories)

\* Every key of the pipelines section loads.
PipelineKeysLoad ==
    \A k \in DOMAIN viper.pipelines :
        /\ decodeTypeAndName(k).err = ""
        /\ decodeTypeAndName(k).typeStr \in {TracesDataTypeStr, MetricsDataTypeStr}
        /\ ~viper.pipelines[k].malformed

\* Two distinct keys of the section normalise to the same full name.
HasDuplicate(section) ==
    \E k1, k2 \in DOMAIN viper[section] : k1 # k2 /\ NameOf(k1) = NameOf(k2)

ReceiversLoad ==
    /\ DOMAIN viper.receivers # {}
    /\ KeysLoad("receivers", receiverFactories)
    /\ ~HasDuplicate("receivers")

ExportersLoad ==
    /\ DOMAIN viper.exporters # {}
    /\ KeysLoad("exporters", exporterFactories)
    /\ ~HasDuplicate("exporters")

ProcessorsLoad ==
    /\ KeysLoad("processors", processorFactories)
    /\ ~HasDuplicate("processors")

PipelinesLoad == PipelineKeysLoad /\ ~HasDuplicate("pipelines")

\* The four sections load: Load reaches validateConfig.
WellLoaded == ReceiversLoad /\ ExportersLoad /\ ProcessorsLoad /\ PipelinesLoad

\* The names the section defines, and those it defines as enabled.
Defined(section) == {NameOf(k) : k \in DOMAIN viper[section]}

DefinedEnabled(section) ==
    {NameOf(k) : k \in {x \in DOMAIN viper[section] :
                            viper[section][x].disabled # "true"}}

\* The error codes of the validation of one pipeline.
PipelineErrors ==
    {errPipelineMustHaveReceiver, errPipelineMustHaveExporter,
     errPipelineMustHaveProcessors, errPipelineReceiverNotExists,
     errPipelineProcessorNotExists, errPipelineExporterNotExists,
     errMetricPipelineCannotHaveProcessors}

\* The key k is the only pipeline of the input.
OnlyPipeline(k) == DOMAIN viper.pipelines = {k}

\* The declared receivers and exporters of pipeline k pass their checks:
\* the lists are not empty and every name is defined.
ReceiversPass(k) ==
    LET l == viper.pipelines[k].receivers
    IN  l # <<>> /\ \A i \in 1..Len(l) : l[i] \in Defined("receivers")

ExportersPass(k) ==
    LET l == viper.pipelines[k].exporters
    IN  l # <<>> /\ \A i \in 1..Len(l) : l[i] \in Defined("exporters")

\* The pipelines whose validation has ended without error.
ValidatedPipelines ==
    IF pc = "validatePipelines" THEN visited
    ELSE IF pc \in {"validateReceivers", "validateExporters", "validateProcessors"}
    THEN DOMAIN config.Pipelines
    ELSE IF pc = "done" /\ result.err.code \in PipelineErrors THEN visited
    ELSE IF pc = "done" /\ result.err.code
                              \in {errNone, errMissingReceivers, errMissingExporters}
    THEN DOMAIN config.Pipelines
    ELSE {}

\* The type part of a pipeline key.
TypeOf(k) == decodeTypeAndName(k).typeStr

\* The declared processors of pipeline k pass their checks: the rule of
\* the data type holds and every name is defined.
ProcessorsPass(k) ==
    LET l == viper.pipelines[k].processors
    IN  /\ TypeOf(k) = TracesDataTypeStr => l # <<>>
        /\ TypeOf(k) = MetricsDataTypeStr => l = <<>>
        /\ \A i \in 1..Len(l) : l[i] \in Defined("processors")

\* Every pipeline of the input passes the validation of pipelines.
PipelinesPass ==
    /\ DOMAIN viper.pipelines # {}
    /\ \A k \in DOMAIN viper.pipelines :
          ReceiversPass(k) /\ ExportersPass(k) /\ ProcessorsPass(k)

\* The references of l to components the section defines as enabled, and
\* the others, in the order of l.
Kept(l, section) == SelectSeq(l, LAMBDA r : r \in DefinedEnabled(section))

Dropped(l, section) == SelectSeq(l, LAMBDA r : r \notin DefinedEnabled(section))

\* The references the info entries of pipeline n name, for one kind.
LoggedRefs(kind, n) ==
    LET es == SelectSeq(logger, LAMBDA e : e.level = "info" /\ e.kind = kind
                                             /\ e.pipeline = n)
    IN  [i \in 1..Len(es) |-> es[i].ref]

\* Every name of the list is a key of the map, of an enabled entity.
Resolves(l, m) ==
    \A i \in 1..Len(l) : l[i] \in DOMAIN m /\ IsEnabled(m[l[i]])

(***************************************************************************)
(* C1.  Every pipeline of a config that Load returns has at least one      *)
(* receiver reference and at least one exporter reference left after the   *)
(* references to disabled components were removed.                         *)
(***************************************************************************)
C1_PipelineKeepsReceiverAndExporter ==
    Succeeded =>
        \A n \in DOMAIN Returned.Pipelines :
            /\ Len(Returned.Pipelines[n].Receivers) >= 1
            /\ Len(Returned.Pipelines[n].Exporters) >= 1

(***************************************************************************)
(* C2.  Every traces pipeline of a config that Load returns has at least   *)
(* one processor left after the disabled processors were removed.          *)
(***************************************************************************)
C2_TracesPipelineKeepsProcessor ==
    Succeeded =>
        \A n \in DOMAIN Returned.Pipelines :
            Returned.Pipelines[n].InputType = TracesDataType
                => Len(Returned.Pipelines[n].Processors) >= 1

(***************************************************************************)
(* C3.  Disabled pruning: once a pipeline is validated, each of its three  *)
(* lists is the declared list restricted to the names whose component is   *)
(* enabled, in the declared order and multiplicity; every dropped          *)
(* reference has its info entry in the log, in the same order; and a       *)
(* "does not exist" error never names a component the section defines,     *)
(* disabled or not.                                                        *)
(***************************************************************************)
C3_DisabledPruning ==
    /\ \A k \in DOMAIN viper.pipelines :
          NameOf(k) \in ValidatedPipelines =>
              LET p == config.Pipelines[NameOf(k)]
                  d == viper.pipelines[k]
              IN  /\ p.Receivers = Kept(d.receivers, "receivers")
                  /\ p.Exporters = Kept(d.exporters, "exporters")
                  /\ p.Processors = Kept(d.processors, "processors")
                  /\ LoggedRefs("receiver", NameOf(k))
                        = Dropped(d.receivers, "receivers")
                  /\ LoggedRefs("exporter", NameOf(k))
                        = Dropped(d.exporters, "exporters")
                  /\ LoggedRefs("processor", NameOf(k))
                        = Dropped(d.processors, "processors")
    /\ Failed /\ result.err.code = errPipelineReceiverNotExists
          => result.err.msg[2] \notin Defined("receivers")
    /\ Failed /\ result.err.code = errPipelineExporterNotExists
          => result.err.msg[2] \notin Defined("exporters")
    /\ Failed /\ result.err.code = errPipelineProcessorNotExists
          => result.err.msg[2] \notin Defined("processors")

\* Load succeeded on a pipeline that declared two receivers, one of them
\* disabled: one reference is left and the drop is logged.
C3_Witness ==
    /\ Succeeded
    /\ \E k \in DOMAIN viper.pipelines :
          /\ Len(viper.pipelines[k].receivers) = 2
          /\ Len(Returned.Pipelines[NameOf(k)].Receivers) = 1
          /\ Len(LoggedRefs("receiver", NameOf(k))) = 1

(***************************************************************************)
(* C4.  Referential integrity: in a returned config every reference of     *)
(* every pipeline is a key of the returned map of its kind, of an enabled  *)
(* entity; when the sections load and some declared reference names no     *)
(* defined component, Load fails with an error of the pipeline             *)
(* validation, and with the "does not exist" error of the kind when the    *)
(* input has that one pipeline and the checks made before pass.            *)
(***************************************************************************)
C4_ReferentialIntegrity ==
    /\ Succeeded =>
          \A n \in DOMAIN Returned.Pipelines :
              /\ Resolves(Returned.Pipelines[n].Receivers, Returned.Receivers)
              /\ Resolves(Returned.Pipelines[n].Processors, Returned.Processors)
              /\ Resolves(Returned.Pipelines[n].Exporters, Returned.Exporters)
    /\ pc = "done" /\ WellLoaded =>
          \A k \in DOMAIN viper.pipelines :
              LET d == viper.pipelines[k]
                  dangling(l, section) ==
                      \E i \in 1..Len(l) : l[i] \notin Defined(section)
              IN  /\ \/ dangling(d.receivers, "receivers")
                     \/ dangling(d.exporters, "exporters")
                     \/ dangling(d.processors, "processors")
                     => Failed /\ result.err.code \in PipelineErrors
                  /\ OnlyPipeline(k) /\ dangling(d.receivers, "receivers")
                     => result.err.code = errPipelineReceiverNotExists
                  /\ OnlyPipeline(k) /\ ReceiversPass(k)
                        /\ dangling(d.exporters, "exporters")
                     => result.err.code = errPipelineExporterNotExists
                  /\ OnlyPipeline(k) /\ ReceiversPass(k) /\ ExportersPass(k)
                        /\ TypeOf(k) = TracesDataTypeStr
                        /\ dangling(d.processors, "processors")
                     => result.err.code = errPipelineProcessorNotExists

\* Load succeeded although a pipeline declared an exporter that is
\* disabled: the returned config has neither the exporter nor the reference.
C4_Witness ==
    /\ Succeeded
    /\ \E k \in DOMAIN viper.pipelines :
          \E i \in 1..Len(viper.pipelines[k].exporters) :
              /\ viper.pipelines[k].exporters[i] \in Defined("exporters")
              /\ viper.pipelines[k].exporters[i] \notin DOMAIN Returned.Exporters

(***************************************************************************)
(* C5.  A returned config has at least one pipeline, one receiver and one  *)
(* exporter, and only enabled entries in its three maps.  An empty         *)
(* receivers section fails with MissingReceivers, an empty exporters       *)
(* section (the receivers loading) with MissingExporters, no pipeline (the *)
(* sections loading) with MissingPipelines; with every pipeline passing,   *)
(* all receivers disabled fail with MissingReceivers, and all exporters    *)
(* disabled (a receiver being enabled) with MissingExporters.              *)
(***************************************************************************)
C5_AtLeastOneOfEach ==
    /\ Succeeded =>
          /\ DOMAIN Returned.Pipelines # {}
          /\ DOMAIN Returned.Receivers # {}
          /\ DOMAIN Returned.Exporters # {}
          /\ \A n \in DOMAIN Returned.Receivers : IsEnabled(Returned.Receivers[n])
          /\ \A n \in DOMAIN Returned.Exporters : IsEnabled(Returned.Exporters[n])
          /\ \A n \in DOMAIN Returned.Processors : IsEnabled(Returned.Processors[n])
    /\ pc = "done" /\ DOMAIN viper.receivers = {}
          => Failed /\ result.err.code = errMissingReceivers
    /\ pc = "done" /\ ReceiversLoad /\ DOMAIN viper.exporters = {}
          => Failed /\ result.err.code = errMissingExporters
    /\ pc = "done" /\ WellLoaded /\ DOMAIN viper.pipelines = {}
          => Failed /\ result.err.code = errMissingPipelines
    /\ pc = "done" /\ WellLoaded /\ DefinedEnabled("receivers") = {}
          => /\ Failed
             /\ PipelinesPass => result.err.code = errMissingReceivers
    /\ pc = "done" /\ WellLoaded /\ DefinedEnabled("exporters") = {}
          => /\ Failed
             /\ PipelinesPass /\ DefinedEnabled("receivers") # {}
                   => result.err.code = errMissingExporters

\* Load succeeded on an input with a disabled receiver: the returned map
\* has lost it and is not empty.
C5_Witness ==
    /\ Succeeded
    /\ Defined("receivers") \ DOMAIN Returned.Receivers # {}

(***************************************************************************)
(* C6.  The processor rule of the data type is checked on the declared     *)
(* list: with the sections loading and the receivers and exporters of a    *)
(* pipeline passing their checks, a traces pipeline that declares no       *)
(* processor and a metrics pipeline that declares one or more make Load    *)
(* fail; when it is the only pipeline the error is                         *)
(* PipelineMustHaveProcessors, resp. MetricPipelineCannotHaveProcessors,   *)
(* whether the declared processors exist, or are enabled, or not.          *)
(***************************************************************************)
C6_ProcessorRuleOnDeclaredList ==
    pc = "done" /\ WellLoaded =>
        \A k \in DOMAIN viper.pipelines :
            ReceiversPass(k) /\ ExportersPass(k) =>
                LET l == viper.pipelines[k].processors
                IN  /\ TypeOf(k) = TracesDataTypeStr /\ l = <<>>
                       => /\ Failed /\ result.err.code \in PipelineErrors
                          /\ OnlyPipeline(k) =>
                                result.err = configError(
                                    errPipelineMustHaveProcessors, <<NameOf(k)>>)
                    /\ TypeOf(k) = MetricsDataTypeStr /\ l # <<>>
                       => /\ Failed /\ result.err.code \in PipelineErrors
                          /\ OnlyPipeline(k) =>
                                result.err = configError(
                                    errMetricPipelineCannotHaveProcessors,
                                    <<NameOf(k)>>)

\* Load failed with MetricPipelineCannotHaveProcessors on a pipeline none of
\* whose declared processors is an enabled, defined processor.
C6_Witness ==
    /\ Failed
    /\ result.err.code = errMetricPipelineCannotHaveProcessors
    /\ \E k \in DOMAIN viper.pipelines :
          /\ OnlyPipeline(k)
          /\ Kept(viper.pipelines[k].processors, "processors") = <<>>

(***************************************************************************)
(* C7.  Every metrics pipeline of a config that Load returns has an empty  *)
(* processor list.                                                         *)
(***************************************************************************)
C7_MetricsPipelineHasNoProcessor ==
    Succeeded =>
        \A n \in DOMAIN Returned.Pipelines :
            Returned.Pipelines[n].InputType = MetricsDataType
                => Returned.Pipelines[n].Processors = <<>>

\* Load succeeded on an input with a metrics pipeline and processors.
C7_Witness ==
    /\ Succeeded
    /\ DOMAIN Returned.Processors # {}
    /\ \E n \in DOMAIN Returned.Pipelines :
          Returned.Pipelines[n].InputType = MetricsDataType

(***************************************************************************)
(* C8.  Name decoding: a key is split at its first "/" only and both       *)
(* parts are trimmed; decoding fails iff the trimmed type part is empty or *)
(* there is a "/" and the trimmed suffix is empty; otherwise the type is   *)
(* the trimmed type part and the full name is the type, followed by "/"    *)
(* and the trimmed suffix when there is a "/".  Load fails on a key that   *)
(* does not decode, in any of the four sections, with                      *)
(* InvalidTypeAndNameKey when the sections before load and the other keys  *)
(* of the section load.                                                    *)
(***************************************************************************)
\* The position of the first "/" of k, 0 when k has none.
FirstSlash(k) ==
    IF \E i \in 1..Len(k) : k[i] = "/"
    THEN CHOOSE i \in 1..Len(k) :
            k[i] = "/" /\ \A j \in 1..(i - 1) : k[j] # "/"
    ELSE 0

\* s without its leading and trailing white space: the part of s that
\* neither starts nor ends with white space and has only white space
\* around it.
Trimmed(s) ==
    CHOOSE t \in {SubSeq(s, a, b) : a \in 1..(Len(s) + 1), b \in 0..Len(s)} :
        /\ t = <<>> \/ (t[1] \notin WhiteSpace /\ t[Len(t)] \notin WhiteSpace)
        /\ \E i \in 0..Len(s) :
              /\ i + Len(t) <= Len(s)
              /\ t = SubSeq(s, i + 1, i + Len(t))
              /\ \A x \in 1..Len(s) :
                    x <= i \/ x > i + Len(t) => s[x] \in WhiteSpace

TypePart(k) ==
    Trimmed(IF FirstSlash(k) = 0 THEN k ELSE SubSeq(k, 1, FirstSlash(k) - 1))

SuffixPart(k) ==
    IF FirstSlash(k) = 0 THEN <<>>
    ELSE Trimmed(SubSeq(k, FirstSlash(k) + 1, Len(k)))

\* The key does not decode.
Malformed(k) ==
    TypePart(k) = <<>> \/ (FirstSlash(k) # 0 /\ SuffixPart(k) = <<>>)

\* The section has a key that does not decode; its other keys load and
\* have distinct full names.
OnlyMalformedKeys(section, loads(_)) ==
    /\ \E k \in DOMAIN viper[section] : Malformed(k)
    /\ \A k \in DOMAIN viper[section] : ~Malformed(k) => loads(k)
    /\ \A k1, k2 \in DOMAIN viper[section] :
          ~Malformed(k1) /\ ~Malformed(k2) /\ k1 # k2 => NameOf(k1) # NameOf(k2)

AllKeys ==
    (DOMAIN viper.receivers) \cup (DOMAIN viper.exporters)
        \cup (DOMAIN viper.processors) \cup (DOMAIN viper.pipelines)

C8_NameDecoding ==
    /\ \A k \in AllKeys :
          LET d == decodeTypeAndName(k)
          IN  /\ d.err # "" <=> Malformed(k)
              /\ d.err = "" =>
                    /\ d.typeStr = TypePart(k)
                    /\ d.fullName = IF FirstSlash(k) = 0 THEN TypePart(k)
                                    ELSE TypePart(k) \o <<"/">> \o SuffixPart(k)
    /\ pc = "done" /\ (\E k \in AllKeys : Malformed(k)) => Failed
    /\ Failed /\ result.err.code = errInvalidTypeAndNameKey
          => result.err.msg[1] \in AllKeys /\ Malformed(result.err.msg[1])
    /\ pc = "done" =>
          /\ OnlyMalformedKeys("receivers",
                LAMBDA k : KeyLoads(k, viper.receivers[k], receiverFactories))
                => result.err.code = errInvalidTypeAndNameKey
          /\ ReceiversLoad
                /\ OnlyMalformedKeys("exporters",
                      LAMBDA k : KeyLoads(k, viper.exporters[k], exporterFactories))
                => result.err.code = errInvalidTypeAndNameKey
          /\ ReceiversLoad /\ ExportersLoad
                /\ OnlyMalformedKeys("processors",
                      LAMBDA k : KeyLoads(k, viper.processors[k], processorFactories))
                => result.err.code = errInvalidTypeAndNameKey
          /\ ReceiversLoad /\ ExportersLoad /\ ProcessorsLoad
                /\ OnlyMalformedKeys("pipelines",
                      LAMBDA k : /\ TypeOf(k) \in {TracesDataTypeStr,
                                                   MetricsDataTypeStr}
                                 /\ ~viper.pipelines[k].malformed)
                => result.err.code = errInvalidTypeAndNameKey

\* Load succeeded on a receiver key with a "/" and white space to trim:
\* the receiver is in the returned map under its normalised full name.
C8_Witness ==
    /\ Succeeded
    /\ \E k \in DOMAIN viper.receivers :
          /\ FirstSlash(k) # 0
          /\ k # NameOf(k)
          /\ NameOf(k) \in DOMAIN Returned.Receivers

(***************************************************************************)
(* C9.  Duplicate detection: when two distinct keys of a section normalise *)
(* to the same full name, every key of the section loads and the sections  *)
(* before load, Load fails with the Duplicate...Name error of the section, *)
(* in whatever order the keys are visited; a returned config comes from    *)
(* sections without such keys, and each entity is under its own name.      *)
(***************************************************************************)
C9_DuplicateDetection ==
    /\ pc = "done" =>
          /\ HasDuplicate("receivers") /\ KeysLoad("receivers", receiverFactories)
                => Failed /\ result.err.code = errDuplicateReceiverName
          /\ ReceiversLoad /\ HasDuplicate("exporters")
                /\ KeysLoad("exporters", exporterFactories)
                => Failed /\ result.err.code = errDuplicateExporterName
          /\ ReceiversLoad /\ ExportersLoad /\ HasDuplicate("processors")
                /\ KeysLoad("processors", processorFactories)
                => Failed /\ result.err.code = errDuplicateProcessorName
          /\ ReceiversLoad /\ ExportersLoad /\ ProcessorsLoad
                /\ HasDuplicate("pipelines") /\ PipelineKeysLoad
                => Failed /\ result.err.code = errDuplicatePipelineName
    /\ Succeeded =>
          /\ \A sec \in {"receivers", "exporters", "processors", "pipelines"} :
                ~HasDuplicate(sec)
          /\ \A n \in DOMAIN Returned.Receivers : Returned.Receivers[n].NameVal = n
          /\ \A n \in DOMAIN Returned.Exporters : Returned.Exporters[n].NameVal = n
          /\ \A n \in DOMAIN Returned.Processors : Returned.Processors[n].NameVal = n
          /\ \A n \in DOMAIN Returned.Pipelines : Returned.Pipelines[n].Name = n

\* Load failed with DuplicateReceiverName on the keys "a" and "a ".
C9_Witness ==
    /\ Failed
    /\ result.err = configError(errDuplicateReceiverName, <<NameA>>)
    /\ {<<"a">>, <<"a", " ">>} \subseteq DOMAIN viper.receivers

(***************************************************************************)
(* C10.  Pipeline naming as claimed: the pipeline of a key is in the       *)
(* returned map under the suffix of the key (the empty string when the key *)
(* has no suffix), which is its Name, and its InputType is that of the     *)
(* type part.                                                              *)
(***************************************************************************)
C10_PipelineNameIsSuffix ==
    Succeeded =>
        \A k \in DOMAIN viper.pipelines :
            /\ SuffixPart(k) \in DOMAIN Returned.Pipelines
            /\ Returned.Pipelines[SuffixPart(k)].Name = SuffixPart(k)
            /\ Returned.Pipelines[SuffixPart(k)].InputType =
                  (IF TypePart(k) = TracesDataTypeStr THEN TracesDataType
                   ELSE MetricsDataType)

(***************************************************************************)
(* C10, amended.  The pipeline of a key is in the returned map under the   *)
(* normalised full name of the key (the type part alone, or the type part, *)
(* "/" and the suffix), which is its Name; its InputType is that of the    *)
(* type part; the map has no other pipeline.                               *)
(***************************************************************************)
C10_PipelineNameIsFullName ==
    Succeeded =>
        /\ \A k \in DOMAIN viper.pipelines :
              LET n == IF FirstSlash(k) = 0 THEN TypePart(k)
                       ELSE TypePart(k) \o <<"/">> \o SuffixPart(k)
              IN  /\ n \in DOMAIN Returned.Pipelines
                  /\ Returned.Pipelines[n].Name = n
                  /\ Returned.Pipelines[n].InputType =
                        (IF TypePart(k) = TracesDataTypeStr THEN TracesDataType
                         ELSE MetricsDataType)
        /\ Cardinality(DOMAIN Returned.Pipelines)
              = Cardinality(DOMAIN viper.pipelines)

\* Load succeeded on a pipeline key with a suffix and white space to trim.
C10_Witness ==
    /\ Succeeded
    /\ \E k \in DOMAIN viper.pipelines :
          SuffixPart(k) # <<>> /\ k # NameOf(k)

(***************************************************************************)
(* C11.  Unrecognised types are rejected.  A key that decodes to a type    *)
(* without factory (for a pipeline: a type that is neither traces nor      *)
(* metrics) makes Load fail; the error is UnknownReceiverType,             *)
(* UnknownExporterType, UnknownProcessorType or InvalidPipelineType, with  *)
(* the type in its message, when the sections before load and the other    *)
(* keys of the section load; and at no point of Load does a map hold an    *)
(* entity for such a key or an entity of such a type.                      *)
(***************************************************************************)
\* The keys of the section that decode to a type outside `types`.
UnknownTypeKeys(section, types) ==
    {k \in DOMAIN viper[section] :
        decodeTypeAndName(k).err = "" /\ TypeOf(k) \notin types}

\* The section has keys of unknown type; its other keys load and have
\* distinct full names.
OnlyUnknownTypeKeys(section, types, loads(_)) ==
    LET others == (DOMAIN viper[section]) \ UnknownTypeKeys(section, types)
    IN  /\ UnknownTypeKeys(section, types) # {}
        /\ \A k \in others : loads(k)
        /\ \A k1, k2 \in others : k1 # k2 => NameOf(k1) # NameOf(k2)

DataTypeStrs == {TracesDataTypeStr, MetricsDataTypeStr}

\* The error is `code` and names the type of one of the keys of unknown type.
UnknownTypeError(code, section, types) ==
    /\ Failed
    /\ result.err.code = code
    /\ result.err.msg \in {<<TypeOf(k)>> : k \in UnknownTypeKeys(section, types)}

C11_UnknownTypesRejected ==
    /\ pc = "done"
          /\ \/ UnknownTypeKeys("receivers", receiverFactories) # {}
             \/ UnknownTypeKeys("exporters", exporterFactories) # {}
             \/ UnknownTypeKeys("processors", processorFactories) # {}
             \/ UnknownTypeKeys("pipelines", DataTypeStrs) # {}
          => Failed
    /\ pc = "done" =>
          /\ OnlyUnknownTypeKeys("receivers", receiverFactories,
                LAMBDA k : KeyLoads(k, viper.receivers[k], receiverFactories))
                => UnknownTypeError(errUnknownReceiverType, "receivers",
                                    receiverFactories)
          /\ ReceiversLoad
                /\ OnlyUnknownTypeKeys("exporters", exporterFactories,
                      LAMBDA k : KeyLoads(k, viper.exporters[k], exporterFactories))
                => UnknownTypeError(errUnknownExporterType, "exporters",
                                    exporterFactories)
          /\ ReceiversLoad /\ ExportersLoad
                /\ OnlyUnknownTypeKeys("processors", processorFactories,
                      LAMBDA k : KeyLoads(k, viper.processors[k], processorFactories))
                => UnknownTypeError(errUnknownProcessorType, "processors",
                                    processorFactories)
          /\ ReceiversLoad /\ ExportersLoad /\ ProcessorsLoad
                /\ OnlyUnknownTypeKeys("pipelines", DataTypeStrs,
                      LAMBDA k : /\ decodeTypeAndName(k).err = ""
                                 /\ ~viper.pipelines[k].malformed)
                => UnknownTypeError(errInvalidPipelineType, "pipelines",
                                    DataTypeStrs)
    /\ \A k \in UnknownTypeKeys("receivers", receiverFactories) :
          NameOf(k) \notin DOMAIN config.Receivers
    /\ \A k \in UnknownTypeKeys("exporters", exporterFactories) :
          NameOf(k) \notin DOMAIN config.Exporters
    /\ \A k \in UnknownTypeKeys("processors", processorFactories) :
          NameOf(k) \notin DOMAIN config.Processors
    /\ \A k \in UnknownTypeKeys("pipelines", DataTypeStrs) :
          NameOf(k) \notin DOMAIN config.Pipelines
    /\ \A n \in DOMAIN config.Receivers :
          config.Receivers[n].TypeVal \in receiverFactories
    /\ \A n \in DOMAIN config.Exporters :
          config.Exporters[n].TypeVal \in exporterFactories
    /\ \A n \in DOMAIN config.Processors :
          config.Processors[n].TypeVal \in processorFactories

\* Load failed with InvalidPipelineType on a key of type "a" after it had
\* loaded another pipeline; no pipeline was created for the key.
C11_Witness ==
    /\ Failed
    /\ result.err = configError(errInvalidPipelineType, <<NameA>>)
    /\ DOMAIN config.Pipelines # {}
    /\ NameA \notin DOMAIN config.Pipelines

(***************************************************************************)
(* C12.  Load is all-or-nothing.  It returns a config and a nil error, or  *)
(* a nil config and an error.  A returned config is the whole input,       *)
(* loaded and validated: it is the config Load has built, its maps hold    *)
(* exactly the enabled components the sections define, and it holds every  *)
(* pipeline, validated.  Load stops at the first error: the sections after *)
(* the one that failed are not loaded, nothing is validated or logged      *)
(* unless the four sections loaded, and no disabled component is deleted   *)
(* once a pipeline has failed its validation.                              *)
(***************************************************************************)
C12_AllOrNothing ==
    /\ result.returned <=> pc = "done"
    /\ result.returned =>
          \/ result.config # <<>> /\ result.err = NoError
          \/ result.config = <<>> /\ result.err # NoError
    /\ Succeeded =>
          /\ result.config = <<config>>
          /\ WellLoaded
          /\ DOMAIN Returned.Receivers = DefinedEnabled("receivers")
          /\ DOMAIN Returned.Exporters = DefinedEnabled("exporters")
          /\ DOMAIN Returned.Processors = DefinedEnabled("processors")
          /\ DOMAIN Returned.Pipelines = Defined("pipelines")
          /\ ValidatedPipelines = DOMAIN Returned.Pipelines
    /\ Failed =>
          /\ ~ReceiversLoad =>
                /\ config.Exporters = EmptyMap
                /\ config.Processors = EmptyMap
                /\ config.Pipelines = EmptyMap
          /\ ~(ReceiversLoad /\ ExportersLoad) =>
                config.Processors = EmptyMap /\ config.Pipelines = EmptyMap
          /\ ~(ReceiversLoad /\ ExportersLoad /\ ProcessorsLoad) =>
                config.Pipelines = EmptyMap
          /\ ~WellLoaded =>
                /\ logger = <<>>
                /\ \A n \in DOMAIN config.Pipelines :
                      \E k \in DOMAIN viper.pipelines :
                          /\ n = NameOf(k)
                          /\ config.Pipelines[n].Receivers
                                = viper.pipelines[k].receivers
          /\ WellLoaded /\ result.err.code \in PipelineErrors =>
                /\ DOMAIN config.Receivers = Defined("receivers")
                /\ DOMAIN config.Exporters = Defined("exporters")
                /\ DOMAIN config.Processors = Defined("processors")
          /\ WellLoaded /\ result.err.code = errMissingReceivers =>
                /\ DOMAIN config.Exporters = Defined("exporters")
                /\ DOMAIN config.Processors = Defined("processors")
          /\ WellLoaded /\ result.err.code = errMissingExporters =>
                DOMAIN config.Processors = Defined("processors")

\* Load returned an error and no config after it had loaded the four
\* sections and pruned a reference of a pipeline.
C12_Witness ==
    /\ Failed
    /\ result.config = <<>>
    /\ logger # <<>>
    /\ DOMAIN config.Pipelines # {}


(***************************************************************************)
(* The VM-metrics receiver: the calls that returned and the collector.     *)
(***************************************************************************)

\* The returns of the calls of method m, as positions of vmrReturns.
vmrReturnsOf(m) == {i \in DOMAIN vmrReturns : vmrReturns[i].method = m}

\* The calls of method m that have not returned.
vmrInProgress(m) ==
    {t \in Callers : vmrCall[t].pc # "idle" /\ vmrCall[t].method = m}

\* How often the collector was called with c.
vmcCount(c) == Cardinality({i \in DOMAIN vmcCalls : vmcCalls[i] = c})

\* Method m with body c and signal e ran its body in exactly one call, which
\* returned nil, and every other call returned e without running the body.
vmrOnce(m, c, e) ==
    /\ vmcCount(c) <= 1
    /\ \A i \in vmrReturnsOf(m) :
          \/ vmrReturns[i].err = nilError /\ vmrReturns[i].ran
          \/ vmrReturns[i].err = e /\ ~vmrReturns[i].ran
    /\ Cardinality({i \in vmrReturnsOf(m) : vmrReturns[i].ran}) <= vmcCount(c)
    /\ vmrReturnsOf(m) # {} => vmcCount(c) = 1
    /\ (vmrReturnsOf(m) # {} /\ vmrInProgress(m) = {}) =>
          Cardinality({i \in vmrReturnsOf(m) : vmrReturns[i].err = nilError}) = 1

\* C13: over any number and interleaving of StartMetricsReception calls on
\* one VM-metrics receiver, exactly one call executes StartCollection and
\* returns nil; every other call returns errAlreadyStarted and does not
\* execute StartCollection.
C13_StartIdempotent ==
    vmrOnce("StartMetricsReception", "StartCollection", errAlreadyStarted)

\* Two StartMetricsReception calls returned, one with the signal, and another
\* is in progress.
C13_Witness ==
    /\ Cardinality(vmrReturnsOf("StartMetricsReception")) >= 2
    /\ \E i \in vmrReturnsOf("StartMetricsReception") :
          vmrReturns[i].err = errAlreadyStarted
    /\ vmrInProgress("StartMetricsReception") # {}

\* C14: N calls of StopMetricsReception, sequential or concurrent, execute
\* StopCollection exactly once; that call returns nil and each of the other
\* N-1 calls returns errAlreadyStopped.
C14_StopIdempotent ==
    vmrOnce("StopMetricsReception", "StopCollection", errAlreadyStopped)

\* Two StopMetricsReception calls returned, one with the signal, and another
\* is in progress.
C14_Witness ==
    /\ Cardinality(vmrReturnsOf("StopMetricsReception")) >= 2
    /\ \E i \in vmrReturnsOf("StopMetricsReception") :
          vmrReturns[i].err = errAlreadyStopped
    /\ vmrInProgress("StopMetricsReception") # {}


(***************************************************************************)
(* The OpenCensus receiver: the calls that returned.                       *)
(***************************************************************************)

\* The returns of the start calls made after some start call returned nil.
ocrRedundantStarts ==
    {r \in ocrReturns : r.method \in StartMethods /\ r.afterStart}

\* C15 as stated: once a StartTraceReception or StartMetricsReception call
\* has succeeded, every further call of either start method returns
\* errAlreadyStarted.
C15_RedundantStartSignals ==
    \A r \in ocrRedundantStarts : r.err = errAlreadyStarted

\* C15, amended: once a StartTraceReception or StartMetricsReception call
\* has succeeded, every further call of either start method returns nil and
\* does not run the function of startServerOnce again.
C15_RedundantStartReturnsNil ==
    \A r \in ocrRedundantStarts : r.err = nilError /\ ~r.ran

\* A start call made after a successful one has returned, the receiver not
\* being stopped.
C15_Witness ==
    /\ ocrRedundantStarts # {}
    /\ ocrOnce.stopOnce = "new"
    /\ ocrOnce.startServerOnce = "done"


(***************************************************************************)
(* The lifecycle of the two receivers.                                     *)
(***************************************************************************)

\* C16: the states of a receiver only advance along CREATED -> STARTING ->
\* RUNNING -> STOPPING -> STOPPED: once the stop body of a receiver has
\* executed, no later start call executes its start body (StartCollection
\* for the VM-metrics receiver, the server start for the OpenCensus one).
C16_NoStartAfterStop ==
    /\ \A i \in vmrReturnsOf("StartMetricsReception") :
          vmrReturns[i].afterStop => ~vmrReturns[i].ran
    /\ \A r \in ocrReturns :
          r.method \in StartMethods /\ r.afterStop => ~r.ran


(***************************************************************************)
(* The errors of the servers of the OpenCensus receiver.                   *)
(***************************************************************************)

\* The errors the goroutines of startServer may send.
ServeErrors ==
    {errDialTrace, errDialMetrics, errMuxClosed, errGRPCClosed, errHTTPClosed}

\* The start call that ran the function of startServerOnce returned nil: no
\* error came within the second.
ocrStartSucceeded ==
    \E r \in ocrReturns : r.method \in StartMethods /\ r.ran /\ r.err = nilError

\* Every goroutine of startServer has ended, or waits for ever to send its
\* error on the full errChan, and no call is in progress.
ocrServersEnded ==
    /\ ocrGo["startServer"].pc \in {"send", "done"}
    /\ \A g \in Goroutines :
          \/ ocrGo[g].pc \in {"none", "done"}
          \/ ocrGo[g].pc = "send" /\ Len(ocrErrChan) = ErrChanCap
    /\ \A t \in Callers : ocrCall[t].pc = "idle"

\* The errors produced after the select of startServer was over: those in
\* errChan, which has no receiver any more, and those not yet sent.
ocrLateErrors ==
    {ocrErrChan[i] : i \in DOMAIN ocrErrChan} \cup
    {ocrGo[g].err : g \in {h \in Goroutines : ocrGo[h].pc = "send"}}

\* C17: start returns the serve error that arrives within the window, or
\* success; and a serve error of the RPC server, the REST server or the
\* demux loop produced after start returned success is reported through the
\* Host's reportFatalError, at the latest when the servers have ended.
C17_LateErrorsReported ==
    /\ \A r \in ocrReturns :
          r.method \in StartMethods /\ r.ran =>
             r.err \in ServeErrors \cup {nilError}
    /\ ocrStartSucceeded /\ ocrServersEnded => ocrLateErrors \subseteq ocrHost


(***************************************************************************)
(* The order in which the servers of the OpenCensus receiver start.        *)
(***************************************************************************)

\* C18: in every interleaving of the goroutines of startServer, Serve of the
\* gRPC server and Serve of the HTTP server have been called on their
\* listeners before m.Serve() begins to accept connections.
C18_ServersStartedBeforeAccept ==
    ocrMux.serve # "no" =>
       ocrServerGRPC.serve # "no" /\ ocrServerHTTP.serve # "no"


(***************************************************************************)
(* The connections of the OpenCensus receiver.                             *)
(***************************************************************************)

\* C19: every connection accepted on the listener of New is handed to
\* exactly one of the two listeners of m: to the one of the gRPC server if
\* and only if its content-type is one of the two gRPC content types, to
\* the one of the HTTP gateway in every other case; and it is served by the
\* server of that listener only.
C19_Demultiplexing ==
    \A i \in DOMAIN ocrMux.conns :
       LET conn == ocrMux.conns[i] IN
       /\ conn.listener \in {"grpcL", "httpL"}
       /\ conn.listener = "grpcL" <=> conn.hdr \in grpcContentTypes
       /\ conn.listener = "httpL" <=> conn.hdr \notin grpcContentTypes
       /\ conn.handler = "rpc" => conn.listener = "grpcL"
       /\ conn.handler = "rest" => conn.listener = "httpL"

\* A connection with the content type application/grpc+proto was served by
\* the gRPC server.
C19_Witness ==
    \E i \in DOMAIN ocrMux.conns :
       /\ ocrMux.conns[i].hdr = "application/grpc+proto"
       /\ ocrMux.conns[i].handler = "rpc"


(***************************************************************************)
(* The shutdown of the OpenCensus receiver.                                *)
(***************************************************************************)

\* The stop body has executed in a call made after a start call had
\* returned nil, and that call has returned.
ocrStoppedAfterStart ==
    \E r \in ocrReturns : r.method \in StopMethods /\ r.ran /\ r.afterStart

\* C20: the first stop call closes the listener, and the HTTP server if it
\* was created; stop never stops the gRPC server, whose Serve returns only
\* because its listener is closed; and after a stop of a started receiver
\* the listener and the HTTP server are both closed.
C20_Shutdown ==
    /\ ocrOnce.stopOnce = "done" => ocrLn = "closed"
    /\ ~ocrServerGRPC.stopped
    /\ ocrServerGRPC.serve = "returned" => ocrMux.grpcL = "closed"
    /\ ocrStoppedAfterStart =>
          /\ ocrLn = "closed"
          /\ ocrServerHTTP.created => ocrServerHTTP.closed

(***************************************************************************)
(* What is left of the OpenCensus receiver when stop has returned.         *)
(***************************************************************************)

\* C21: when a StopTraceReception or StopMetricsReception call on a started
\* receiver has returned, the goroutines of startServer (the demux loop,
\* the two serve loops and their sends on errChan) have ended: none still
\* runs, and none waits on errChan.
C21_StopSynchronous ==
    ocrStoppedAfterStart =>
       \A g \in Goroutines : ocrGo[g].pc \in {"none", "done"}

(***************************************************************************)
(* The start calls of the OpenCensus receiver after a failed one.          *)
(***************************************************************************)

\* C27: a failed start is never later reported as success: once a start
\* call has returned an error (an immediate error of the servers), every
\* later call of StartTraceReception or StartMetricsReception on the same
\* receiver returns an error too.
C27_FailedStartStaysFailed ==
    \A r \in ocrReturns :
       r.method \in StartMethods /\ r.afterFail => r.err # nilError

(***************************************************************************)
(* StartTraceReception and StartMetricsReception, one start routine.       *)
(***************************************************************************)

\* The services registered on the gRPC server.
ocrServices == {ocrServerGRPC.services[i] : i \in DOMAIN ocrServerGRPC.services}

\* The start calls that ran the function of startServerOnce, returned or in
\* progress.
ocrServerStarts ==
    Cardinality({r \in ocrReturns : r.method \in StartMethods /\ r.ran}) +
    Cardinality({t \in Callers : ocrCall[t].pc # "idle" /\ ocrCall[t].ran /\
                                 ocrCall[t].method \in StartMethods})

\* C25: StartTraceReception and StartMetricsReception are the same start
\* routine: a call of either that returns nil, on a receiver with a
\* consumer, has registered the service of every consumer that is not nil
\* and consumed the once of the server start; over every number and
\* interleaving of calls of the two each service is registered at most
\* once and the server start body runs at most once.
C25_StartAliasing ==
    /\ Len(ocrServerGRPC.services) = Cardinality(ocrServices)
    /\ ocrServices \subseteq ocrConsumers
    /\ ocrServerStarts <= 1
    /\ \A r \in ocrReturns :
          r.method \in StartMethods /\ r.err = nilError /\ ocrConsumers # {} =>
             /\ ocrServices = ocrConsumers
             /\ ocrServerGRPC.created
             /\ ocrOnce.startServerOnce = "done"
             /\ ocrServerStarts = 1

(***************************************************************************)
(* StopTraceReception and StopMetricsReception.                            *)
(***************************************************************************)

\* The stop calls that returned.
ocrStopReturns == {r \in ocrReturns : r.method \in StopMethods}

\* C26: over every number and interleaving of StopTraceReception and
\* StopMetricsReception calls the teardown body (stop of the trace
\* receiver, Close of the HTTP server, Close of the listener) runs exactly
\* once, in the first call to enter it, and every call, first or redundant,
\* returns nil.
C26_StopReturnsNil ==
    /\ \A r \in ocrStopReturns : r.err = nilError
    /\ Cardinality({r \in ocrStopReturns : r.ran}) <= 1
    /\ ocrStopReturns # {} =>
          /\ \E r \in ocrStopReturns : r.ran
          /\ ocrOnce.stopOnce = "done"
          /\ ocrLn = "closed"
    /\ ocrOnce.stopOnce = "new" => ocrLn = "open" /\ ~ocrServerHTTP.closed

\* A call of each stop method has returned; one ran the teardown body, the
\* other found the once done.
C26_Witness ==
    /\ \E r \in ocrStopReturns : r.method = "StopTraceReception" /\ r.ran
    /\ \E r \in ocrStopReturns : r.method = "StopMetricsReception" /\ ~r.ran

(***************************************************************************)
(* The OpenCensus receiver built without consumers.                        *)
(***************************************************************************)

\* C28: when the trace consumer and the metrics consumer are both nil,
\* every call of StartTraceReception or StartMetricsReception returns the
\* "no consumers were specified" error, registers no service, leaves the
\* once of the server start unused and starts no goroutine, and does not
\* touch the listener of New.
C28_NoConsumers ==
    ocrConsumers = {} =>
       /\ \A r \in ocrReturns :
             r.method \in StartMethods => r.err = errNoConsumers /\ ~r.ran
       /\ ocrServerGRPC.services = <<>>
       /\ ~ocrServerGRPC.created
       /\ ocrReceivers = [trace |-> "nil", metrics |-> "nil"]
       /\ ocrOnce.startServerOnce = "new"
       /\ ocrOnce.startTraceReceiverOnce = "new"
       /\ ocrOnce.startMetricsReceiverOnce = "new"
       /\ \A g \in Goroutines : ocrGo[g].pc = "none"
       /\ ocrOnce.stopOnce = "new" => ocrLn = "open"

\* On a receiver without consumers a call of each start method has
\* returned, and no stop call was made.
C28_Witness ==
    /\ ocrConsumers = {}
    /\ \E r \in ocrReturns : r.method = "StartTraceReception"
    /\ \E r \in ocrReturns : r.method = "StartMetricsReception"
    /\ ocrOnce.stopOnce = "new"

(***************************************************************************)
(* Defaults and overrides.                                                 *)
(***************************************************************************)

\* The component sections with the field of the config they load into, the
\* factories they use, and the steps of Load in which the field holds the
\* whole section, nothing being deleted yet.
ComponentSections ==
    {[section |-> "receivers", field |-> "Receivers",
      factories |-> receiverFactories, load |-> "loadReceivers",
      whole |-> {"loadExporters", "loadProcessors", "loadPipelines",
                 "validatePipelines", "validateReceivers"}],
     [section |-> "exporters", field |-> "Exporters",
      factories |-> exporterFactories, load |-> "loadExporters",
      whole |-> {"loadProcessors", "loadPipelines", "validatePipelines",
                 "validateReceivers", "validateExporters"}],
     [section |-> "processors", field |-> "Processors",
      factories |-> processorFactories, load |-> "loadProcessors",
      whole |-> {"loadPipelines", "validatePipelines", "validateReceivers",
                 "validateExporters", "validateProcessors"}]}

\* The entity the key k with its settings is to load to: the default
\* config with the decoded type, the full name, and the user's value of
\* every setting given.
ExpectedEntity(k, settings) ==
    LET d == decodeTypeAndName(k)
        default == CreateDefaultConfig(d.typeStr)
    IN  [TypeVal |-> d.typeStr,
         NameVal |-> d.fullName,
         Disabled |-> IF settings.disabled = "unset" THEN default.Disabled
                      ELSE settings.disabled = "true"]

\* C22: every entity loaded for a receiver, exporter or processor key with
\* a factory has the decoded type as Type(), the full name as Name(), the
\* default of every setting the user did not give (so it is enabled) and
\* the user's value of every setting given; a key that is the bare type
\* with no settings loads to the default config of the factory; and each
\* distinct key contributes exactly one entry of the map.
C22_DefaultsAndOverrides ==
    \A s \in ComponentSections :
       LET m == config[s.field]
           keys == DOMAIN viper[s.section]
       IN  /\ \A n \in DOMAIN m :
                \E k \in {x \in keys : NameOf(x) = n} :
                      /\ decodeTypeAndName(k).typeStr \in s.factories
                      /\ m[n] = ExpectedEntity(k, viper[s.section][k])
                      /\ viper[s.section][k].disabled = "unset" => IsEnabled(m[n])
                      /\ (k = decodeTypeAndName(k).typeStr /\
                          viper[s.section][k] = Unset) =>
                            m[n] = CreateDefaultConfig(k)
           /\ pc = s.load =>
                /\ DOMAIN m = {NameOf(k) : k \in visited}
                /\ Cardinality(DOMAIN m) = Cardinality(visited)
           /\ pc \in s.whole =>
                /\ DOMAIN m = {NameOf(k) : k \in keys}
                /\ Cardinality(DOMAIN m) = Cardinality(keys)

\* The receivers are loaded from the keys "a", without settings, and "a/b",
\* disabled by the user: one entity is the default config, the other has
\* the full name and the user's value.
C22_Witness ==
    /\ pc = "loadExporters"
    /\ viper.receivers = (NameA :> Unset) @@ (NameAB :> Disabled)
    /\ config.Receivers[NameA] = CreateDefaultConfig(NameA)
    /\ config.Receivers[NameAB] =
          [TypeVal |-> NameA, NameVal |-> NameAB, Disabled |-> TRUE]

(***************************************************************************)
(* Round trip: decode, validate, re-encode.                                *)
(***************************************************************************)

\* The encoding of the entities of one section by the mapstructure tags of
\* their settings: the key is the name, Type and Name are not written
\* (tag "-"), and the setting `disabled` is written with its value.
EncodeEntities(m) ==
    [n \in DOMAIN m |-> [disabled |-> IF m[n].Disabled THEN "true" ELSE "false"]]

\* The encoding of the pipelines: the key is the name, Name and InputType
\* are not written (tag "-"), the three lists are.
EncodePipelines(m) ==
    [n \in DOMAIN m |->
        PipelineSettings(m[n].Receivers, m[n].Processors, m[n].Exporters)]

\* The encoding of a configuration, section by section.
Encode(cfg) ==
    [receivers |-> EncodeEntities(cfg.Receivers),
     exporters |-> EncodeEntities(cfg.Exporters),
     processors |-> EncodeEntities(cfg.Processors),
     pipelines |-> EncodePipelines(cfg.Pipelines)]

\* What one component section of an input says, whitespace and the order
\* of the keys set aside: for each full name, whether the component is
\* disabled ("false" and no setting at all say the same).
SectionMeaning(section) ==
    [n \in {NameOf(k) : k \in DOMAIN section} |->
        LET k == CHOOSE x \in DOMAIN section : NameOf(x) = n
        IN  section[k].disabled = "true"]

\* What the pipelines section of an input says, likewise: for each full
\* name the three reference lists.
PipelinesMeaning(section) ==
    [n \in {NameOf(k) : k \in DOMAIN section} |->
        LET k == CHOOSE x \in DOMAIN section : NameOf(x) = n
        IN  [receivers |-> section[k].receivers,
             processors |-> section[k].processors,
             exporters |-> section[k].exporters]]

\* What an input says.
Meaning(v) ==
    [receivers |-> SectionMeaning(v.receivers),
     exporters |-> SectionMeaning(v.exporters),
     processors |-> SectionMeaning(v.processors),
     pipelines |-> PipelinesMeaning(v.pipelines)]

\* The enabled components of a section meaning.
EnabledOnly(m) == [n \in {x \in DOMAIN m : ~m[x]} |-> m[n]]

\* A meaning without its disabled components and without the references
\* to them.
WithoutDisabled(mg) ==
    [receivers |-> EnabledOnly(mg.receivers),
     exporters |-> EnabledOnly(mg.exporters),
     processors |-> EnabledOnly(mg.processors),
     pipelines |->
        [n \in DOMAIN mg.pipelines |->
            [receivers |->
                SelectSeq(mg.pipelines[n].receivers,
                          LAMBDA r : r \in DOMAIN EnabledOnly(mg.receivers)),
             processors |->
                SelectSeq(mg.pipelines[n].processors,
                          LAMBDA r : r \in DOMAIN EnabledOnly(mg.processors)),
             exporters |->
                SelectSeq(mg.pipelines[n].exporters,
                          LAMBDA r : r \in DOMAIN EnabledOnly(mg.exporters))]]]

\* The input holds a disabled component.
HasDisabled ==
    \E s \in {"receivers", "exporters", "processors"} :
        \E k \in DOMAIN viper[s] : viper[s][k].disabled = "true"

\* C23 as stated: for every input Load accepts, the encoding of the
\* returned configuration says what the input says: the same receivers,
\* exporters, processors and pipelines with the same settings and the same
\* reference lists.
C23_RoundTrip ==
    Succeeded => Meaning(Encode(Returned)) = Meaning(viper)

\* C23 amended: for every input Load accepts, the encoding of the returned
\* configuration says what the input says once its disabled components
\* and the references to them are taken out; it says what the input says
\* when the input holds no disabled component.
C23_RoundTripWithoutDisabled ==
    Succeeded =>
        /\ Meaning(Encode(Returned)) = WithoutDisabled(Meaning(viper))
        /\ ~HasDisabled => Meaning(Encode(Returned)) = Meaning(viper)

\* Load has accepted an input with the receivers "a", disabled, and "a/b",
\* whose pipeline refers to both; the returned configuration holds "a/b"
\* alone and the pipeline refers to it alone.
C23_Witness ==
    /\ Succeeded
    /\ viper.receivers = (NameA :> Disabled) @@ (NameAB :> Unset)
    /\ \E k \in DOMAIN viper.pipelines :
          viper.pipelines[k].receivers = <<NameA, NameAB>>
    /\ DOMAIN Returned.Receivers = {NameAB}
    /\ \A n \in DOMAIN Returned.Pipelines :
          Returned.Pipelines[n].Receivers = <<NameAB>>

\* Load has accepted an input whose keys carry whitespace and that holds
\* no disabled component; the encoding says what the input says.
C23_WitnessWhitespace ==
    /\ Succeeded
    /\ ~HasDisabled
    /\ \E k \in DOMAIN viper.receivers : NameOf(k) # k

(***************************************************************************)
(* Validation order.                                                       *)
(***************************************************************************)

\* The error codes of a reference to a component that does not exist, with
\* the section the reference is looked up in.
NotExistsErrors ==
    {[code |-> errPipelineReceiverNotExists, section |-> "receivers"],
     [code |-> errPipelineExporterNotExists, section |-> "exporters"],
     [code |-> errPipelineProcessorNotExists, section |-> "processors"]}

\* Some pipeline of the input does not pass the validation of pipelines.
SomePipelineFails ==
    \E k \in DOMAIN viper.pipelines :
        ~(ReceiversPass(k) /\ ExportersPass(k) /\ ProcessorsPass(k))

\* C24: validateConfig runs pipelines, receivers, exporters, processors.
\* While the pipelines are validated the three maps still hold every
\* component of the input, the disabled ones included; the disabled
\* receivers are gone when the exporters are validated, and the disabled
\* exporters when the processors are.  So an error of Load about a
\* reference that does not exist never names a component the input
\* defines, disabled or not; when some pipeline does not pass, the error is
\* that of a pipeline, whatever is disabled; when the pipelines pass and no
\* receiver is enabled, the error is MissingReceivers, also when no
\* exporter is enabled; and MissingExporters is returned only when some
\* receiver is enabled.
C24_ValidationOrder ==
    /\ pc = "validatePipelines" =>
          /\ DOMAIN config.Receivers = Defined("receivers")
          /\ DOMAIN config.Exporters = Defined("exporters")
          /\ DOMAIN config.Processors = Defined("processors")
    /\ pc = "validateReceivers" =>
          /\ visited = {}
          /\ ValidatedPipelines = Defined("pipelines")
          /\ DOMAIN config.Receivers = Defined("receivers")
    /\ pc = "validateExporters" =>
          /\ DOMAIN config.Receivers = DefinedEnabled("receivers")
          /\ DOMAIN config.Exporters = Defined("exporters")
          /\ DOMAIN config.Processors = Defined("processors")
    /\ pc = "validateProcessors" =>
          /\ DOMAIN config.Receivers = DefinedEnabled("receivers")
          /\ DOMAIN config.Exporters = DefinedEnabled("exporters")
          /\ DOMAIN config.Processors = Defined("processors")
    /\ \A e \in NotExistsErrors :
          Failed /\ result.err.code = e.code =>
              /\ result.err.msg[2] \notin Defined(e.section)
              /\ \E k \in DOMAIN viper.pipelines :
                    /\ NameOf(k) = result.err.msg[1]
                    /\ \E i \in 1..Len(viper.pipelines[k][e.section]) :
                          viper.pipelines[k][e.section][i] = result.err.msg[2]
    /\ pc = "done" /\ WellLoaded /\ SomePipelineFails =>
          result.err.code \in PipelineErrors
    /\ pc = "done" /\ WellLoaded /\ PipelinesPass
          /\ DefinedEnabled("receivers") = {} =>
          result.err.code = errMissingReceivers
    /\ pc = "done" /\ result.err.code = errMissingExporters =>
          /\ DefinedEnabled("receivers") # {}
          /\ DefinedEnabled("exporters") = {}

\* Load has failed on a pipeline whose exporter reference does not exist,
\* for an input with no enabled receiver whose pipeline refers to a
\* disabled receiver.
C24_Witness ==
    /\ Failed
    /\ result.err.code = errPipelineExporterNotExists
    /\ DefinedEnabled("receivers") = {}
    /\ \E k \in DOMAIN viper.pipelines :
          /\ viper.pipelines[k].receivers # <<>>
          /\ \A i \in 1..Len(viper.pipelines[k].receivers) :
                viper.pipelines[k].receivers[i] \in Defined("receivers")

\* Load has failed with MissingReceivers for an input with no enabled
\* receiver and no enabled exporter.
C24_WitnessBothMissing ==
    /\ Failed
    /\ result.err.code = errMissingReceivers
    /\ DefinedEnabled("receivers") = {}
    /\ DefinedEnabled("exporters") = {}

(***************************************************************************)
(* Independence of the iteration order.                                    *)
(***************************************************************************)

\* The key of the section that normalises to the name n.
KeyOf(section, n) == CHOOSE k \in DOMAIN viper[section] : NameOf(k) = n

\* The enabled entities the input defines in a component section.
EntitiesOf(section) ==
    [n \in DefinedEnabled(section) |->
        ExpectedEntity(KeyOf(section, n), viper[section][KeyOf(section, n)])]

\* The pipelines the input defines, their lists without the references to
\* disabled components.
PipelinesOf ==
    [n \in Defined("pipelines") |->
        LET d == viper.pipelines[KeyOf("pipelines", n)]
        IN  [Name |-> n,
             InputType |-> IF TypeOf(n) = TracesDataTypeStr THEN TracesDataType
                           ELSE MetricsDataType,
             Receivers |-> Kept(d.receivers, "receivers"),
             Processors |-> Kept(d.processors, "processors"),
             Exporters |-> Kept(d.exporters, "exporters")]]

\* The configuration the input stands for.
ConfigOf ==
    [Receivers |-> EntitiesOf("receivers"),
     Exporters |-> EntitiesOf("exporters"),
     Processors |-> EntitiesOf("processors"),
     Pipelines |-> PipelinesOf]

\* The input is one Load accepts: the sections load, the pipelines pass
\* and an enabled receiver and an enabled exporter are left.
Accepted ==
    /\ WellLoaded
    /\ PipelinesPass
    /\ DefinedEnabled("receivers") # {}
    /\ DefinedEnabled("exporters") # {}

\* C29: whether Load succeeds or fails, and the configuration it returns
\* when it succeeds, are fixed by the input alone: in whatever order the
\* keys of each section and the pipelines were visited, Load has succeeded
\* exactly when the input is an accepted one, and the returned maps and
\* pruned pipeline lists are those the input stands for.
C29_OrderIndependent ==
    pc = "done" =>
        /\ result.returned
        /\ Succeeded <=> Accepted
        /\ Succeeded => Returned = ConfigOf

\* Load has succeeded on an input with two receivers and two pipelines,
\* one receiver disabled and referred to by a pipeline.
C29_Witness ==
    /\ Succeeded
    /\ Cardinality(DOMAIN viper.receivers) = 2
    /\ Cardinality(DOMAIN viper.pipelines) = 2
    /\ Cardinality(DefinedEnabled("receivers")) = 1
    /\ \E k \in DOMAIN viper.pipelines :
          Len(Returned.Pipelines[NameOf(k)].Receivers)
              < Len(viper.pipelines[k].receivers)

\* Load has failed on an input with a key of an unknown type and a key
\* that does not decode in one section: the error depends on the key
\* visited first, the failure does not.
C29_WitnessFailed ==
    /\ Failed
    /\ \E s \in {"receivers", "exporters", "processors"} :
          \E k1, k2 \in DOMAIN viper[s] :
              /\ decodeTypeAndName(k1).err # ""
              /\ decodeTypeAndName(k2).err = ""
              /\ decodeTypeAndName(k2).typeStr \notin receiverFactories

====
